---- MODULE Spec2Model ----
(***************************************************************************)
(* Refresh coordinator of the Polymarket monitoring dashboard.             *)
(*                                                                         *)
(* The model covers the two storage implementations of                     *)
(* server/polymarket-storage.ts (PolymarketStorage, the in-memory live     *)
(* storage, and PostgresStorage, the relational one), the fetch client of  *)
(* server/polymarket-client.ts with its two cache entries, and the         *)
(* requests that reach the storage through server/routes.ts.               *)
(*                                                                         *)
(* Node runs the program on one event loop: a task runs until it awaits    *)
(* I/O (a network fetch, a database query).  `running` is the task that    *)
(* holds the loop; a task waiting for I/O holds nothing, and any other     *)
(* task may run until the I/O completes.                                   *)
(*                                                                         *)
(* Time is in milliseconds, as Date.now().  The content of a cache is      *)
(* represented by the upstream response it was built from; a response is   *)
(* identified by the time it arrived.                                      *)
(***************************************************************************)
EXTENDS Integers, FiniteSets, Sequences, TLC

---------------------------------------------------------------------------
(* Bounds of the model *)

NumReaders == 1
TicksPerTTL == 2
MaxTicks == 3
StartTime == 600000

---------------------------------------------------------------------------
(* Program constants *)

DATA_REFRESH_INTERVAL == 5 * 60 * 1000
EARNINGS_REFRESH_INTERVAL == 10 * 60 * 1000
CACHE_TTL == 5 * 60 * 1000

Quantum == DATA_REFRESH_INTERVAL \div TicksPerTTL
MaxTime == StartTime + MaxTicks * Quantum

Ctor == 0
Readers == 1..NumReaders
Procs == {Ctor} \cup Readers
None == -1

Impls == {"PolymarketStorage", "PostgresStorage"}

---------------------------------------------------------------------------
(* Upstream responses and cache entries *)

\* A parsed response body: the time it arrived, and whether it has the
\* shape the code casts it to (an array of well-formed records).
NoData == [t |-> 0, ok |-> TRUE]
Response(t, ok) == [t |-> t, ok |-> ok]

\* CacheEntry<T> | null of the fetch client.
NoEntry == [present |-> FALSE, data |-> NoData, timestamp |-> 0]
CacheEntry(d, ts) == [present |-> TRUE, data |-> d, timestamp |-> ts]

\* (a validity check that only looks for an entry)
AnyEntryIsInvalid(cache, t) == FALSE

isCacheValid(cache, t) ==
  IF ~cache.present THEN FALSE ELSE t - cache.timestamp < CACHE_TTL

\* The market map / table: the markets response it holds, whether it was
\* populated completely, and the trades batch its per-market statistics
\* were computed from (0: the statistics are the zeros of a fresh market).
EmptyMarkets == [src |-> 0, whole |-> TRUE, stats |-> 0]

---------------------------------------------------------------------------
(* The read methods and what each does, in order *)

ReadMethods ==
  { "getWallets", "getFlaggedWallets", "getHistoricalWallets", "getWallet",
    "getWalletWithTransactions", "getWalletRiskFactors", "getMarkets",
    "getMarket", "getTransactions", "getTransactionsByWallet",
    "getDashboardStats", "getEarningsAlerts", "getEarningsStats" }

\* PolymarketStorage: every read method awaits refreshData() first.
MemPlan(m) ==
  CASE m = "getDashboardStats" ->
         <<"refresh", "refresh", "read", "refresh", "read">>
    [] m = "getWalletWithTransactions" ->
         <<"refresh", "read", "refresh", "read">>
    [] m \in {"getEarningsAlerts", "getEarningsStats"} ->
         <<"refresh", "earnings", "read">>
    [] OTHER -> <<"refresh", "read">>

\* PostgresStorage: the list reads and the statistics await refreshData();
\* the single-item lookups and the transaction reads query the tables
\* directly; the earnings reads return constants.
PgPlan(m) ==
  CASE m \in {"getWallets", "getFlaggedWallets", "getHistoricalWallets",
              "getMarkets", "getDashboardStats"} -> <<"refresh", "read">>
    [] m \in {"getEarningsAlerts", "getEarningsStats"} -> << >>
    [] OTHER -> <<"read">>

Plan(i, m) == IF i = "PolymarketStorage" THEN MemPlan(m) ELSE PgPlan(m)

---------------------------------------------------------------------------
VARIABLES
  now,                  \* Date.now()
  impl,                 \* the storage implementation selected at startup
  running,              \* the task that holds the event loop, or None
  proc,                 \* per task: position and locals
  isRefreshing,
  lastDataRefresh,
  marketCache,
  walletCache,
  transactionCache,
  isRefreshingEarnings,
  lastEarningsRefresh,
  earningsAlertCache,
  marketsCache,         \* PolymarketClient.marketsCache
  allTradesCache,       \* PolymarketClient.allTradesCache
  committed,            \* history: the caches as the last successful
                        \* refresh left them
  lastOutcome           \* history: how the last finished refresh ended

storageVars == <<isRefreshing, lastDataRefresh, marketCache, walletCache,
                 transactionCache>>
earningsVars == <<isRefreshingEarnings, lastEarningsRefresh,
                  earningsAlertCache>>
clientVars == <<marketsCache, allTradesCache>>
histVars == <<committed, lastOutcome>>
serverVars == <<now, impl, running, proc, storageVars, earningsVars,
                clientVars, histVars>>

\* The state of the risk scoring module's caller (server/risk-scoring.ts):
\* the metrics handed in and what came back.
VARIABLES
  metrics,              \* the WalletMetrics argument; a field may be missing
  factors,              \* what calculateRiskFactors returned
  score,                \* what calculateRiskScore returned
  calls                 \* how many times calculateRiskScore was called

scoreVars == <<metrics, factors, score, calls>>

\* The wallets a storage holds and what its last wallet read returned.
VARIABLES
  backend,              \* the storage class: MemStorage (mock data),
                        \* PolymarketStorage or PostgresStorage
  wallets,              \* MemStorage.wallets, PolymarketStorage.walletCache,
                        \* the wallets table, in insertion order
  returned              \* the last wallet read: method, result

walletVars == <<backend, wallets, returned>>

\* A request's limit/offset query strings, the options parsed from them and
\* the page cut out of a list with them.
VARIABLES
  query,                \* req.query: limit and offset, strings or absent
  items,                \* the length of the list to paginate
  options,              \* what parsePagination returned
  page                  \* what paginate returned

pageVars == <<query, items, options, page>>

\* The rows of a storage (the maps of PolymarketStorage, the tables of
\* PostgresStorage) with their contents, and what went in and came out.
VARIABLES
  marketRows,           \* marketCache / markets, in insertion order
  walletRows,           \* walletCache / wallets
  transactionRows,      \* transactionCache / transactions
  uuid,                 \* how many ids randomUUID() and the database issued
  fetched,              \* the upstream data of the last refresh that
                        \* got through, how many did, and whether the
                        \* one before it got the same data
  handed,               \* the wallets a list read handed to a client
  reply                 \* the last response to a single-resource lookup

tableVars == <<marketRows, walletRows, transactionRows, uuid, fetched, handed,
               reply>>

\* The earnings alerts PolymarketStorage holds, with their contents, and the
\* refreshEarningsData() that last ran.
VARIABLES
  alertCache,           \* earningsAlertCache: the alerts, one per id
  earningsRun           \* the last earnings refresh: what its calls
                        \* returned and whether it recorded its time

alertVars == <<alertCache, earningsRun>>

\* The trades handed to PolymarketClient.analyzeWalletTrades and what it
\* returned.
VARIABLES
  walletTrades,         \* the trades argument
  analysis              \* the result

tradeVars == <<walletTrades, analysis>>

\* What getDashboardStats returned for the wallets held (backend, wallets).
VARIABLE dashboard

statsVars == <<dashboard>>

\* PolymarketClient's two caches with the options their data was fetched
\* for, and what the last call got.
VARIABLES
  clientClock,          \* Date.now() as the client reads it
  cachedMarkets,        \* marketsCache, with the limit of its request
  cachedTrades,         \* allTradesCache, with the limit of its request
  got                   \* the last call: method, limit asked for, limit
                        \* the returned data was fetched for

optVars == <<clientClock, cachedMarkets, cachedTrades, got>>

\* The earnings client (server/earnings-client.ts) and the requests it sent.
VARIABLES
  apiKey,               \* whether FMP_API_KEY is set
  today,                \* the calendar date
  requestsToday,
  lastRequestDate,
  earningsCache,        \* "none", "valid" or "stale" (older than CACHE_TTL)
  sp500Cache,
  sentToday             \* history: HTTP requests sent on this date

quotaVars == <<apiKey, today, requestsToday, lastRequestDate, earningsCache,
               sp500Cache, sentToday>>

moreVars == <<alertVars, tradeVars, statsVars, optVars, quotaVars>>

restVars == <<tableVars, moreVars>>

libVars == <<scoreVars, walletVars, pageVars, restVars>>

vars == <<now, impl, running, proc, storageVars, earningsVars, clientVars,
          histVars, libVars>>

\* A field that is absent (undefined), a result not yet returned.
Undefined == -1

MetricNames == {"accountAgeDays", "winRate", "portfolioConcentration",
                "avgTimingProximity", "totalVolume"}
FactorNames == {"accountAge", "winRate", "portfolioConcentration",
                "timingProximity", "positionSize"}

ScoreAtRest ==
  /\ metrics = [f \in MetricNames |-> Undefined]
  /\ factors = [f \in FactorNames |-> Undefined]
  /\ score = Undefined
  /\ calls = 0

\* PaginationOptions; a read method called without options gets none.
NoOptions == [present |-> FALSE, limit |-> 0, offset |-> 0]
Options(limit, offset) == [present |-> TRUE, limit |-> limit, offset |-> offset]

NoPage == [data |-> << >>, total |-> 0, limit |-> 0, offset |-> 0,
           hasMore |-> FALSE, done |-> FALSE]

NoRead == [method |-> "none", data |-> << >>, index |-> 0,
           factors |-> [f \in FactorNames |-> Undefined]]

WalletAtRest ==
  /\ backend = "PolymarketStorage"
  /\ wallets = << >>
  /\ returned = NoRead

Absent == << "undefined" >>

PageAtRest ==
  /\ query = [limit |-> Absent, offset |-> Absent]
  /\ items = 0
  /\ options = NoOptions
  /\ page = NoPage

NoReply == [route |-> "none", id |-> 0, status |-> 0, body |-> 0,
            refresh |-> "none"]

NoFetch == [n |-> 0, markets |-> << >>, trades |-> << >>, metrics |-> << >>,
            again |-> FALSE]

TablesAtRest ==
  /\ marketRows = << >>
  /\ walletRows = << >>
  /\ transactionRows = << >>
  /\ uuid = 0
  /\ fetched = NoFetch
  /\ handed = {}
  /\ reply = NoReply

NoRun == [n |-> 0, events |-> {}, markets |-> << >>, outcome |-> "none",
          recorded |-> FALSE]

AlertsAtRest ==
  /\ alertCache = {}
  /\ earningsRun = NoRun

NoAnalysis == [done |-> FALSE, winRate |-> [num |-> 0, den |-> 1],
               totalBets |-> 0, totalVolume |-> 0]

TradesAtRest ==
  /\ walletTrades = << >>
  /\ analysis = NoAnalysis

NoStats == [done |-> FALSE, totalFlaggedToday |-> 0, highRiskCount |-> 0]

StatsAtRest == dashboard = NoStats

NoCache == [present |-> FALSE, limit |-> 0, timestamp |-> 0]

NoCall == [method |-> "none", asked |-> 0, for |-> 0, from |-> "none"]

ClientAtRest ==
  /\ clientClock = 0
  /\ cachedMarkets = NoCache
  /\ cachedTrades = NoCache
  /\ got = NoCall

QuotaAtRest ==
  /\ apiKey = FALSE
  /\ today = 1
  /\ requestsToday = 0
  /\ lastRequestDate = 0
  /\ earningsCache = "none"
  /\ sp500Cache = "none"
  /\ sentToday = 0

MoreAtRest ==
  AlertsAtRest /\ TradesAtRest /\ StatsAtRest /\ ClientAtRest /\ QuotaAtRest

RestAtRest == TablesAtRest /\ MoreAtRest

LibAtRest == ScoreAtRest /\ WalletAtRest /\ PageAtRest /\ RestAtRest

Snapshot(m, w, x) == [markets |-> m, wallets |-> w, transactions |-> x]
Caches == Snapshot(marketCache, walletCache, transactionCache)

\* A task at rest.
IdleProc ==
  [pc |-> "idle", plan |-> << >>, ctx |-> "data", now0 |-> 0, enow0 |-> 0,
   polymarkets |-> NoData, recentTrades |-> NoData,
   refreshed |-> FALSE, failed |-> FALSE]

\* Positions at which a task waits for I/O and does not hold the loop.
Blocked == {"fetchMarkets", "fetchTrades", "fetchCalendar",
            "pgMarkets", "pgWallets", "pgStats", "pgCounts"}

Holder(p, pc) == IF pc \in Blocked \cup {"idle"} THEN None ELSE p

\* The task p moves to the record r; the loop goes to whoever holds it then.
Move(p, r) ==
  /\ proc' = [proc EXCEPT ![p] = r]
  /\ running' = Holder(p, r.pc)

---------------------------------------------------------------------------
(* Construction *)

\* Both constructors call this.refreshData(): lastDataRefresh is 0, so the
\* call passes both guards, sets isRefreshing and issues the markets request.
Init ==
  /\ now = StartTime
  /\ impl \in Impls
  /\ running = None
  /\ proc = [p \in Procs |->
       IF p = Ctor
       THEN [IdleProc EXCEPT !.pc = "fetchMarkets", !.plan = <<"refresh">>,
                             !.now0 = StartTime]
       ELSE IdleProc]
  /\ isRefreshing = TRUE
  /\ lastDataRefresh = 0
  /\ marketCache = EmptyMarkets
  /\ walletCache = 0
  /\ transactionCache = 0
  /\ isRefreshingEarnings = FALSE
  /\ lastEarningsRefresh = 0
  /\ earningsAlertCache = 0
  /\ marketsCache = NoEntry
  /\ allTradesCache = NoEntry
  /\ committed = Snapshot(EmptyMarkets, 0, 0)
  /\ lastOutcome = "none"
  /\ LibAtRest

---------------------------------------------------------------------------
(* The clock *)

\* Time passes while the loop waits for I/O; a task that holds the loop runs
\* to its next await within the same millisecond.
Tick ==
  /\ running = None
  /\ now + Quantum <= MaxTime
  /\ now' = now + Quantum
  /\ UNCHANGED <<libVars, impl, running, proc, storageVars, earningsVars,
                 clientVars, histVars>>

---------------------------------------------------------------------------
(* A request reaches a read method of the storage *)

Request(p, m) ==
  /\ p \in Readers
  /\ running = None
  /\ proc[p].pc = "idle"
  /\ Move(p, [IdleProc EXCEPT !.pc = "next", !.plan = Plan(impl, m)])
  /\ UNCHANGED <<libVars, now, impl, storageVars, earningsVars, clientVars,
                 histVars>>

\* The read method returns to the route handler.
Return(p) ==
  /\ running = p
  /\ proc[p].pc = "next"
  /\ proc[p].plan = << >>
  /\ Move(p, IdleProc)
  /\ UNCHANGED <<libVars, now, impl, storageVars, earningsVars, clientVars,
                 histVars>>

\* The read method reads the caches (the tables) it serves from.
Read(p) ==
  /\ running = p
  /\ proc[p].pc = "next"
  /\ proc[p].plan # << >>
  /\ Head(proc[p].plan) = "read"
  /\ Move(p, [proc[p] EXCEPT !.plan = Tail(@)])
  /\ UNCHANGED <<libVars, now, impl, storageVars, earningsVars, clientVars,
                 histVars>>

---------------------------------------------------------------------------
(* refreshData(): the guards *)

\* (a refreshData without its re-entrancy guard)
GuardMissing == FALSE

\* if (this.isRefreshing) return;
AlreadyRefreshing == isRefreshing

\* (a refreshData without its staleness check)
NeverFresh(t) == FALSE

\* if (now - this.lastDataRefresh < this.DATA_REFRESH_INTERVAL) return;
DataIsFresh(t) == t - lastDataRefresh < DATA_REFRESH_INTERVAL

\* Where a task goes once the client has handed it the markets, and where
\* an exception thrown by the client lands: in the data refresh or in the
\* earnings refresh, whichever called.
AfterMarkets(ctx) == IF ctx = "data" THEN "getRecentTrades" ELSE "eprocess"
Catch(ctx) == IF ctx = "data" THEN "finally" ELSE "efinally"

RefreshData(p) ==
  /\ running = p
  /\ proc[p].pc = "next"
  /\ proc[p].plan # << >>
  /\ Head(proc[p].plan) = "refresh"
  /\ IF AlreadyRefreshing \/ DataIsFresh(now)
     THEN /\ Move(p, [proc[p] EXCEPT !.plan = Tail(@), !.refreshed = TRUE])
          /\ UNCHANGED storageVars
     ELSE /\ isRefreshing' = TRUE
          /\ Move(p, [proc[p] EXCEPT !.pc = "getMarkets", !.ctx = "data",
                                     !.now0 = now, !.failed = FALSE])
          /\ UNCHANGED <<lastDataRefresh, marketCache, walletCache,
                         transactionCache>>
  /\ UNCHANGED <<libVars, now, impl, earningsVars, clientVars, histVars>>

---------------------------------------------------------------------------
(* PolymarketClient.getMarkets *)

\* The call: a valid entry is returned; otherwise the request is sent.
ClientGetMarkets(p) ==
  /\ running = p
  /\ proc[p].pc = "getMarkets"
  /\ IF isCacheValid(marketsCache, now)
     THEN Move(p, [proc[p] EXCEPT !.polymarkets = marketsCache.data,
                                  !.pc = AfterMarkets(proc[p].ctx)])
     ELSE Move(p, [proc[p] EXCEPT !.pc = "fetchMarkets"])
  /\ UNCHANGED <<libVars, now, impl, storageVars, earningsVars, clientVars,
                 histVars>>

\* (a catch block that stamps the entry it falls back to)
EntryRestamped(cache, t) == [cache EXCEPT !.timestamp = t]

\* The entry after a request that failed: the catch blocks of getMarkets and
\* getRecentTrades read the entry and assign nothing.
EntryAfterFailure(cache, t) == cache

\* The response: a parsed body (of the expected shape or not) overwrites the
\* entry; a network error or a non-2xx status falls back to the entry if
\* there is one and is thrown otherwise.
MarketsResponse(p, outcome) ==
  /\ running = None
  /\ proc[p].pc = "fetchMarkets"
  /\ IF outcome \in {"ok", "malformed"}
     THEN /\ marketsCache' = CacheEntry(Response(now, outcome = "ok"), now)
          /\ Move(p, [proc[p] EXCEPT
                        !.polymarkets = Response(now, outcome = "ok"),
                        !.pc = AfterMarkets(proc[p].ctx)])
     ELSE /\ marketsCache' = EntryAfterFailure(marketsCache, now)
          /\ IF marketsCache.present
             THEN Move(p, [proc[p] EXCEPT !.polymarkets = marketsCache.data,
                                          !.pc = AfterMarkets(proc[p].ctx)])
             ELSE Move(p, [proc[p] EXCEPT !.pc = Catch(proc[p].ctx),
                                          !.failed = TRUE])
  /\ UNCHANGED <<libVars, now, impl, storageVars, earningsVars, allTradesCache,
                 histVars>>

---------------------------------------------------------------------------
(* PolymarketClient.getRecentTrades *)

ClientGetRecentTrades(p) ==
  /\ running = p
  /\ proc[p].pc = "getRecentTrades"
  /\ IF isCacheValid(allTradesCache, now)
     THEN Move(p, [proc[p] EXCEPT !.recentTrades = allTradesCache.data,
                                  !.pc = "process"])
     ELSE Move(p, [proc[p] EXCEPT !.pc = "fetchTrades"])
  /\ UNCHANGED <<libVars, now, impl, storageVars, earningsVars, clientVars,
                 histVars>>

TradesResponse(p, outcome) ==
  /\ running = None
  /\ proc[p].pc = "fetchTrades"
  /\ IF outcome \in {"ok", "malformed"}
     THEN /\ allTradesCache' = CacheEntry(Response(now, outcome = "ok"), now)
          /\ Move(p, [proc[p] EXCEPT
                        !.recentTrades = Response(now, outcome = "ok"),
                        !.pc = "process"])
     ELSE /\ allTradesCache' = EntryAfterFailure(allTradesCache, now)
          /\ IF allTradesCache.present
             THEN Move(p, [proc[p] EXCEPT
                             !.recentTrades = allTradesCache.data,
                             !.pc = "process"])
             ELSE Move(p, [proc[p] EXCEPT !.pc = "finally",
                                          !.failed = TRUE])
  /\ UNCHANGED <<libVars, now, impl, storageVars, earningsVars, marketsCache,
                 histVars>>

---------------------------------------------------------------------------
(* PolymarketStorage.refreshData: the rebuild *)

\* The timestamp a refresh that got through the rebuild records:
\* this.lastDataRefresh = now, the now of line 150.
RefreshStamp(p) == proc[p].now0

\* (the assignment moved out of the try block)
StampAnyway(p) == proc[p].now0

\* lastDataRefresh after the rebuild threw: the assignment was not reached.
StampOnFailure(p) == lastDataRefresh

\* Lines 166-179 run without awaiting I/O.  The market loop throws on a
\* markets body of the wrong shape, after marketCache.clear(); the grouping
\* loop of analyzeWalletsFromTrades throws on a trades body of the wrong
\* shape, before the wallet and transaction maps are cleared.
Process(p) ==
  /\ running = p
  /\ proc[p].pc = "process"
  /\ impl = "PolymarketStorage"
  /\ LET pm == proc[p].polymarkets
         rt == proc[p].recentTrades
     IN IF ~pm.ok
        THEN /\ marketCache' = [src |-> pm.t, whole |-> FALSE, stats |-> 0]
             /\ lastDataRefresh' = StampOnFailure(p)
             /\ UNCHANGED <<walletCache, transactionCache, committed>>
             /\ Move(p, [proc[p] EXCEPT !.pc = "finally", !.failed = TRUE])
        ELSE IF ~rt.ok
        THEN /\ marketCache' = [src |-> pm.t, whole |-> TRUE, stats |-> 0]
             /\ lastDataRefresh' = StampOnFailure(p)
             /\ UNCHANGED <<walletCache, transactionCache, committed>>
             /\ Move(p, [proc[p] EXCEPT !.pc = "finally", !.failed = TRUE])
        ELSE /\ marketCache' = [src |-> pm.t, whole |-> TRUE, stats |-> rt.t]
             /\ walletCache' = rt.t
             /\ transactionCache' = rt.t
             /\ lastDataRefresh' = RefreshStamp(p)
             /\ committed' = Snapshot(marketCache', walletCache',
                                      transactionCache')
             /\ Move(p, [proc[p] EXCEPT !.pc = "finally"])
  /\ UNCHANGED <<libVars, now, impl, isRefreshing, earningsVars, clientVars,
                 lastOutcome>>

\* (the reset placed at the end of the try block instead of finally)
FlagResetOnSuccessOnly(p) == proc[p].failed

\* finally { this.isRefreshing = false }
FlagAfterRefresh(p) == FALSE

\* The finally block runs on every way out of the try block, and
\* refreshData() resolves.

Finally(p) ==
  /\ running = p
  /\ proc[p].pc = "finally"
  /\ isRefreshing' = FlagAfterRefresh(p)
  /\ lastOutcome' = IF proc[p].failed THEN "failed" ELSE "ok"
  /\ Move(p, [proc[p] EXCEPT !.pc = "next", !.plan = Tail(@),
                             !.refreshed = TRUE, !.now0 = 0,
                             !.polymarkets = NoData,
                             !.recentTrades = NoData])
  /\ UNCHANGED <<libVars, now, impl, lastDataRefresh, marketCache, walletCache,
                 transactionCache, earningsVars, clientVars, committed>>

---------------------------------------------------------------------------
(* PostgresStorage.refreshData: the rebuild, one awaited query after another *)

\* The loop over polymarkets throws on a body of the wrong shape before the
\* first upsert is sent.
PgProcess(p) ==
  /\ running = p
  /\ proc[p].pc = "process"
  /\ impl = "PostgresStorage"
  /\ IF proc[p].polymarkets.ok
     THEN Move(p, [proc[p] EXCEPT !.pc = "pgMarkets"])
     ELSE Move(p, [proc[p] EXCEPT !.pc = "finally", !.failed = TRUE])
  /\ UNCHANGED <<libVars, now, impl, storageVars, earningsVars, clientVars,
                 histVars>>

\* The market upserts: a conflict on conditionId updates the listing columns
\* and leaves the statistics columns as they are.
PgUpsertMarkets(p, ok) ==
  /\ running = None
  /\ proc[p].pc = "pgMarkets"
  /\ IF ok
     THEN /\ marketCache' = [marketCache EXCEPT
                               !.src = proc[p].polymarkets.t]
          /\ IF proc[p].recentTrades.ok
             THEN Move(p, [proc[p] EXCEPT !.pc = "pgWallets"])
             ELSE Move(p, [proc[p] EXCEPT !.pc = "finally",
                                          !.failed = TRUE])
     ELSE /\ UNCHANGED marketCache
          /\ Move(p, [proc[p] EXCEPT !.pc = "finally", !.failed = TRUE])
  /\ UNCHANGED <<libVars, now, impl, isRefreshing, lastDataRefresh, walletCache,
                 transactionCache, earningsVars, clientVars, histVars>>

\* analyzeWalletsFromTrades: wallet upserts, transaction delete and inserts.
PgAnalyzeWallets(p, ok) ==
  /\ running = None
  /\ proc[p].pc = "pgWallets"
  /\ IF ok
     THEN /\ walletCache' = proc[p].recentTrades.t
          /\ transactionCache' = proc[p].recentTrades.t
          /\ Move(p, [proc[p] EXCEPT !.pc = "pgStats"])
     ELSE /\ UNCHANGED <<walletCache, transactionCache>>
          /\ Move(p, [proc[p] EXCEPT !.pc = "finally", !.failed = TRUE])
  /\ UNCHANGED <<libVars, now, impl, isRefreshing, lastDataRefresh, marketCache,
                 earningsVars, clientVars, histVars>>

\* updateMarketStats, then this.lastDataRefresh = now.
PgUpdateMarketStats(p, ok) ==
  /\ running = None
  /\ proc[p].pc = "pgStats"
  /\ IF ok
     THEN /\ marketCache' = [marketCache EXCEPT
                               !.stats = proc[p].recentTrades.t]
          /\ lastDataRefresh' = RefreshStamp(p)
          /\ committed' = Snapshot(marketCache', walletCache,
                                   transactionCache)
          /\ Move(p, [proc[p] EXCEPT !.pc = "pgCounts"])
     ELSE /\ UNCHANGED <<marketCache, lastDataRefresh, committed>>
          /\ Move(p, [proc[p] EXCEPT !.pc = "finally", !.failed = TRUE])
  /\ UNCHANGED <<libVars, now, impl, isRefreshing, walletCache,
                 transactionCache,
                 earningsVars, clientVars, lastOutcome>>

\* The two count queries of the closing log line.
PgCounts(p, ok) ==
  /\ running = None
  /\ proc[p].pc = "pgCounts"
  /\ IF ok
     THEN Move(p, [proc[p] EXCEPT !.pc = "finally"])
     ELSE Move(p, [proc[p] EXCEPT !.pc = "finally", !.failed = TRUE])
  /\ UNCHANGED <<libVars, now, impl, storageVars, earningsVars, clientVars,
                 histVars>>

---------------------------------------------------------------------------
(* PolymarketStorage.refreshEarningsData *)

EarningsAlreadyRefreshing == isRefreshingEarnings

EarningsIsFresh(t) == t - lastEarningsRefresh < EARNINGS_REFRESH_INTERVAL

RefreshEarningsData(p) ==
  /\ running = p
  /\ proc[p].pc = "next"
  /\ proc[p].plan # << >>
  /\ Head(proc[p].plan) = "earnings"
  /\ IF EarningsAlreadyRefreshing \/ EarningsIsFresh(now)
     THEN /\ Move(p, [proc[p] EXCEPT !.plan = Tail(@)])
          /\ UNCHANGED earningsVars
     ELSE /\ isRefreshingEarnings' = TRUE
          /\ Move(p, [proc[p] EXCEPT !.pc = "fetchCalendar", !.ctx = "earn",
                                     !.enow0 = now])
          /\ UNCHANGED <<lastEarningsRefresh, earningsAlertCache>>
  /\ UNCHANGED <<libVars, now, impl, storageVars, clientVars, histVars>>

\* earningsClient.getEarningsCalendar never throws; an empty calendar
\* records the timestamp and returns before the alert cache is touched.
CalendarResponse(p, empty) ==
  /\ running = None
  /\ proc[p].pc = "fetchCalendar"
  /\ IF empty
     THEN /\ lastEarningsRefresh' = proc[p].enow0
          /\ Move(p, [proc[p] EXCEPT !.pc = "efinally"])
     ELSE /\ UNCHANGED lastEarningsRefresh
          /\ Move(p, [proc[p] EXCEPT !.pc = "getMarkets"])
  /\ UNCHANGED <<libVars, now, impl, storageVars, isRefreshingEarnings,
                 earningsAlertCache, clientVars, histVars>>

\* The alert cache is cleared, then rebuilt from the markets; the loop throws
\* on a markets body of the wrong shape.
EProcess(p) ==
  /\ running = p
  /\ proc[p].pc = "eprocess"
  /\ IF proc[p].polymarkets.ok
     THEN /\ earningsAlertCache' = proc[p].polymarkets.t
          /\ lastEarningsRefresh' = proc[p].enow0
     ELSE /\ earningsAlertCache' = 0
          /\ UNCHANGED lastEarningsRefresh
  /\ Move(p, [proc[p] EXCEPT !.pc = "efinally"])
  /\ UNCHANGED <<libVars, now, impl, storageVars, isRefreshingEarnings,
                 clientVars,
                 histVars>>

EarningsFlagAfterRefresh(p) == FALSE

EFinally(p) ==
  /\ running = p
  /\ proc[p].pc = "efinally"
  /\ isRefreshingEarnings' = EarningsFlagAfterRefresh(p)
  /\ Move(p, [proc[p] EXCEPT !.pc = "next", !.plan = Tail(@),
                             !.ctx = "data", !.enow0 = 0,
                             !.polymarkets = NoData])
  /\ UNCHANGED <<libVars, now, impl, storageVars, lastEarningsRefresh,
                 earningsAlertCache, clientVars, histVars>>

---------------------------------------------------------------------------
(* The system *)

Outcomes == {"ok", "malformed", "error"}

Next ==
  \/ Tick
  \/ \E p \in Readers, m \in ReadMethods : Request(p, m)
  \/ \E p \in Procs : RefreshData(p)
  \/ \E p \in Procs : ClientGetMarkets(p)
  \/ \E p \in Procs, o \in Outcomes : MarketsResponse(p, o)
  \/ \E p \in Procs : ClientGetRecentTrades(p)
  \/ \E p \in Procs, o \in Outcomes : TradesResponse(p, o)
  \/ \E p \in Procs : Process(p)
  \/ \E p \in Procs : PgProcess(p)
  \/ \E p \in Procs, ok \in BOOLEAN : PgUpsertMarkets(p, ok)
  \/ \E p \in Procs, ok \in BOOLEAN : PgAnalyzeWallets(p, ok)
  \/ \E p \in Procs, ok \in BOOLEAN : PgUpdateMarketStats(p, ok)
  \/ \E p \in Procs, ok \in BOOLEAN : PgCounts(p, ok)
  \/ \E p \in Procs : Finally(p)
  \/ \E p \in Procs : RefreshEarningsData(p)
  \/ \E p \in Procs, e \in BOOLEAN : CalendarResponse(p, e)
  \/ \E p \in Procs : EProcess(p)
  \/ \E p \in Procs : EFinally(p)
  \/ \E p \in Procs : Read(p)
  \/ \E p \in Procs : Return(p)

Spec == Init /\ [][Next]_vars

\* What the event loop owes a task: a continuation that is ready runs, and
\* an I/O operation that was started completes (with a result or an error)
\* and its callback is run, however many other requests arrive meanwhile.
Progress(p) ==
  \/ RefreshData(p)
  \/ ClientGetMarkets(p)
  \/ \E o \in Outcomes : MarketsResponse(p, o)
  \/ ClientGetRecentTrades(p)
  \/ \E o \in Outcomes : TradesResponse(p, o)
  \/ Process(p)
  \/ PgProcess(p)
  \/ \E ok \in BOOLEAN : PgUpsertMarkets(p, ok)
  \/ \E ok \in BOOLEAN : PgAnalyzeWallets(p, ok)
  \/ \E ok \in BOOLEAN : PgUpdateMarketStats(p, ok)
  \/ \E ok \in BOOLEAN : PgCounts(p, ok)
  \/ Finally(p)
  \/ RefreshEarningsData(p)
  \/ \E e \in BOOLEAN : CalendarResponse(p, e)
  \/ EProcess(p)
  \/ EFinally(p)
  \/ Read(p)
  \/ Return(p)

FairSpec == Spec /\ \A p \in Procs : SF_vars(Progress(p))

---------------------------------------------------------------------------
(* server/risk-scoring.ts                                                  *)
(*                                                                         *)
(* Rates (winRate, portfolioConcentration) are in hundredths: 0.85 is 85.  *)

\* The most calls of calculateRiskScore on the same metrics.
MaxCalls == 2

RISK_THRESHOLDS == [LOW |-> 0, MEDIUM |-> 40, HIGH |-> 60, CRITICAL |-> 80]

\* (a table whose account-age points are not in descending order)
FACTOR_CONFIG_Unordered ==
  [accountAge |->
     [maxPoints |-> 20,
      thresholds |-> << [days |-> 7, points |-> 15],
                        [days |-> 14, points |-> 20],
                        [days |-> 30, points |-> 8] >>],
   winRate |->
     [maxPoints |-> 20,
      thresholds |-> << [rate |-> 85, points |-> 15],
                        [rate |-> 70, points |-> 20],
                        [rate |-> 60, points |-> 8] >>],
   portfolioConcentration |->
     [maxPoints |-> 20,
      thresholds |-> << [concentration |-> 80, points |-> 15],
                        [concentration |-> 60, points |-> 20],
                        [concentration |-> 40, points |-> 8] >>],
   timingProximity |->
     [maxPoints |-> 20,
      thresholds |-> << [hours |-> 24, points |-> 15],
                        [hours |-> 48, points |-> 20],
                        [hours |-> 72, points |-> 8] >>],
   positionSize |->
     [maxPoints |-> 20,
      thresholds |-> << [volume |-> 10000, points |-> 15],
                        [volume |-> 2500, points |-> 20],
                        [volume |-> 500, points |-> 8] >>]]

FACTOR_CONFIG ==
  [accountAge |->
     [maxPoints |-> 20,
      thresholds |-> << [days |-> 7, points |-> 20],
                        [days |-> 14, points |-> 15],
                        [days |-> 30, points |-> 8] >>],
   winRate |->
     [maxPoints |-> 20,
      thresholds |-> << [rate |-> 85, points |-> 20],
                        [rate |-> 70, points |-> 15],
                        [rate |-> 60, points |-> 8] >>],
   portfolioConcentration |->
     [maxPoints |-> 20,
      thresholds |-> << [concentration |-> 80, points |-> 20],
                        [concentration |-> 60, points |-> 15],
                        [concentration |-> 40, points |-> 8] >>],
   timingProximity |->
     [maxPoints |-> 20,
      thresholds |-> << [hours |-> 24, points |-> 20],
                        [hours |-> 48, points |-> 15],
                        [hours |-> 72, points |-> 8] >>],
   positionSize |->
     [maxPoints |-> 20,
      thresholds |-> << [volume |-> 10000, points |-> 20],
                        [volume |-> 2500, points |-> 15],
                        [volume |-> 500, points |-> 8] >>]]

\* for (const threshold of thresholds) if (hit) return threshold.points;
\* return 0: the points of the first threshold of ts whose index is in hits.
FirstPoints(ts, hits) ==
  IF hits = {} THEN 0
  ELSE ts[CHOOSE i \in hits : \A j \in hits : i <= j].points

\* (an account-age score whose cutoffs are inclusive)
AccountAgeScoreInclusive(ageDays) ==
  LET ts == FACTOR_CONFIG.accountAge.thresholds
  IN FirstPoints(ts, {i \in DOMAIN ts : ageDays <= ts[i].days})

calculateAccountAgeScore(ageDays) ==
  LET ts == FACTOR_CONFIG.accountAge.thresholds
  IN FirstPoints(ts, {i \in DOMAIN ts : ageDays < ts[i].days})

calculateWinRateScore(winRate) ==
  LET ts == FACTOR_CONFIG.winRate.thresholds
  IN FirstPoints(ts, {i \in DOMAIN ts : winRate > ts[i].rate})

calculateConcentrationScore(concentration) ==
  LET ts == FACTOR_CONFIG.portfolioConcentration.thresholds
  IN FirstPoints(ts, {i \in DOMAIN ts : concentration > ts[i].concentration})

calculateTimingScore(avgHours) ==
  LET ts == FACTOR_CONFIG.timingProximity.thresholds
  IN FirstPoints(ts, {i \in DOMAIN ts : avgHours < ts[i].hours})

calculatePositionSizeScore(volume) ==
  LET ts == FACTOR_CONFIG.positionSize.thresholds
  IN FirstPoints(ts, {i \in DOMAIN ts : volume >= ts[i].volume})

\* value ?? fallback
OrElse(value, fallback) == IF value = Undefined THEN fallback ELSE value

\* Math.min
Min(a, b) == IF a <= b THEN a ELSE b

\* (a calculateRiskScore whose missing metrics all default to 0)
RiskScoreZeroDefaults(m) ==
  Min(100,
      calculateAccountAgeScore(OrElse(m.accountAgeDays, 0))
      + calculateWinRateScore(OrElse(m.winRate, 0))
      + calculateConcentrationScore(OrElse(m.portfolioConcentration, 0))
      + calculateTimingScore(OrElse(m.avgTimingProximity, 0))
      + calculatePositionSizeScore(OrElse(m.totalVolume, 0)))

calculateRiskScore(m) ==
  LET ageDays == OrElse(m.accountAgeDays, 30)
      winRate == OrElse(m.winRate, 50)
      concentration == OrElse(m.portfolioConcentration, 30)
      timing == OrElse(m.avgTimingProximity, 72)
      volume == OrElse(m.totalVolume, 0)
      sum == calculateAccountAgeScore(ageDays)
             + calculateWinRateScore(winRate)
             + calculateConcentrationScore(concentration)
             + calculateTimingScore(timing)
             + calculatePositionSizeScore(volume)
  IN Min(100, sum)

calculateRiskFactors(wallet) ==
  [accountAge |-> calculateAccountAgeScore(wallet.accountAgeDays),
   winRate |-> calculateWinRateScore(wallet.winRate),
   portfolioConcentration |->
     calculateConcentrationScore(wallet.portfolioConcentration),
   timingProximity |-> calculateTimingScore(wallet.avgTimingProximity),
   positionSize |-> calculatePositionSizeScore(wallet.totalVolume)]

shouldFlagWallet(riskScore) == riskScore >= RISK_THRESHOLDS.MEDIUM

\* The inputs: for every cutoff of the table the value on it and the nearest
\* value on its other side, and the absent field.
Cutoffs(factor, key) ==
  {FACTOR_CONFIG[factor].thresholds[i][key] :
     i \in DOMAIN FACTOR_CONFIG[factor].thresholds}

Below(cuts) == cuts \cup {c - 1 : c \in cuts}
Above(cuts) == cuts \cup {c + 1 : c \in cuts}

MetricValues ==
  [accountAgeDays |-> Below(Cutoffs("accountAge", "days")),
   winRate |-> Above(Cutoffs("winRate", "rate")),
   portfolioConcentration |->
     Above(Cutoffs("portfolioConcentration", "concentration")),
   avgTimingProximity |-> Below(Cutoffs("timingProximity", "hours")),
   totalVolume |-> Below(Cutoffs("positionSize", "volume"))]

Metrics ==
  [accountAgeDays : MetricValues.accountAgeDays \cup {Undefined},
   winRate : MetricValues.winRate \cup {Undefined},
   portfolioConcentration :
     MetricValues.portfolioConcentration \cup {Undefined},
   avgTimingProximity : MetricValues.avgTimingProximity \cup {Undefined},
   totalVolume : MetricValues.totalVolume \cup {Undefined}]

Complete(m) == \A f \in MetricNames : m[f] # Undefined

\* The server at rest: constructed, nothing requested, the clock stopped.
ServerAtRest ==
  /\ now = StartTime
  /\ impl = "PolymarketStorage"
  /\ running = None
  /\ proc = [p \in Procs |-> IdleProc]
  /\ isRefreshing = FALSE
  /\ lastDataRefresh = 0
  /\ marketCache = EmptyMarkets
  /\ walletCache = 0
  /\ transactionCache = 0
  /\ isRefreshingEarnings = FALSE
  /\ lastEarningsRefresh = 0
  /\ earningsAlertCache = 0
  /\ marketsCache = NoEntry
  /\ allTradesCache = NoEntry
  /\ committed = Snapshot(EmptyMarkets, 0, 0)
  /\ lastOutcome = "none"

ScoreInit ==
  /\ ServerAtRest
  /\ RestAtRest
  /\ WalletAtRest
  /\ PageAtRest
  /\ metrics \in Metrics
  /\ factors = [f \in FactorNames |-> Undefined]
  /\ score = Undefined
  /\ calls = 0

\* A caller calls calculateRiskScore(metrics).
CalculateRiskScore ==
  /\ calls < MaxCalls
  /\ score' = calculateRiskScore(metrics)
  /\ calls' = calls + 1
  /\ UNCHANGED <<metrics, factors, serverVars, walletVars, pageVars,
                 restVars>>

\* A caller calls calculateRiskFactors on a wallet with these metrics (a
\* stored wallet has all five).
CalculateRiskFactors ==
  /\ Complete(metrics)
  /\ factors = [f \in FactorNames |-> Undefined]
  /\ factors' = calculateRiskFactors(metrics)
  /\ UNCHANGED <<metrics, score, calls, serverVars, walletVars, pageVars,
                 restVars>>

ScoreNext == CalculateRiskScore \/ CalculateRiskFactors

ScoreSpec == ScoreInit /\ [][ScoreNext]_vars

---------------------------------------------------------------------------
(* paginate (server/polymarket-storage.ts, server/storage.ts)              *)

DEFAULT_PAGINATION == [limit |-> 50, offset |-> 0, maxLimit |-> 200]

\* Math.max
Max(a, b) == IF a >= b THEN a ELSE b

\* Array.prototype.slice(start, end): a negative index counts from the end.
Slice(list, start, end) ==
  LET len == Len(list)
      from == IF start < 0 THEN Max(len + start, 0) ELSE Min(start, len)
      to == IF end < 0 THEN Max(len + end, 0) ELSE Min(end, len)
  IN IF from >= to THEN << >> ELSE SubSeq(list, from + 1, to)

paginate(list, opts) ==
  LET limit == Min(IF opts.present THEN opts.limit
                   ELSE DEFAULT_PAGINATION.limit,
                   DEFAULT_PAGINATION.maxLimit)
      offset == IF opts.present THEN opts.offset
                ELSE DEFAULT_PAGINATION.offset
      total == Len(list)
      data == Slice(list, offset, offset + limit)
  IN [data |-> data, total |-> total, limit |-> limit, offset |-> offset,
      hasMore |-> offset + Len(data) < total, done |-> TRUE]

---------------------------------------------------------------------------
(* The wallets of a storage                                                *)

\* The most wallets added to a storage by createWallet or by one refresh.
MaxWallets == 2

Backends == {"MemStorage", "PolymarketStorage", "PostgresStorage"}

Wallet(address, riskScore, winRate, totalVolume, age, conc, timing, flag) ==
  [address |-> address, riskScore |-> riskScore, winRate |-> winRate,
   totalVolume |-> totalVolume, accountAgeDays |-> age,
   portfolioConcentration |-> conc, avgTimingProximity |-> timing,
   isFlagged |-> flag]

\* MemStorage.seedData: the twenty wallet profiles.
walletProfiles ==
  << [ageDays |-> 3, winRate |-> 92, concentration |-> 85, timing |-> 18,
      volume |-> 125000],
     [ageDays |-> 5, winRate |-> 88, concentration |-> 78, timing |-> 24,
      volume |-> 89000],
     [ageDays |-> 2, winRate |-> 95, concentration |-> 92, timing |-> 12,
      volume |-> 210000],
     [ageDays |-> 7, winRate |-> 82, concentration |-> 65, timing |-> 36,
      volume |-> 67000],
     [ageDays |-> 4, winRate |-> 90, concentration |-> 72, timing |-> 20,
      volume |-> 145000],
     [ageDays |-> 10, winRate |-> 75, concentration |-> 55, timing |-> 48,
      volume |-> 45000],
     [ageDays |-> 6, winRate |-> 85, concentration |-> 68, timing |-> 28,
      volume |-> 98000],
     [ageDays |-> 1, winRate |-> 97, concentration |-> 95, timing |-> 8,
      volume |-> 320000],
     [ageDays |-> 8, winRate |-> 78, concentration |-> 58, timing |-> 42,
      volume |-> 56000],
     [ageDays |-> 12, winRate |-> 72, concentration |-> 48, timing |-> 56,
      volume |-> 38000],
     [ageDays |-> 15, winRate |-> 68, concentration |-> 42, timing |-> 60,
      volume |-> 28000],
     [ageDays |-> 9, winRate |-> 80, concentration |-> 62, timing |-> 38,
      volume |-> 72000],
     [ageDays |-> 3, winRate |-> 89, concentration |-> 82, timing |-> 22,
      volume |-> 115000],
     [ageDays |-> 6, winRate |-> 84, concentration |-> 70, timing |-> 32,
      volume |-> 88000],
     [ageDays |-> 4, winRate |-> 91, concentration |-> 76, timing |-> 16,
      volume |-> 178000],
     [ageDays |-> 20, winRate |-> 65, concentration |-> 35, timing |-> 72,
      volume |-> 22000],
     [ageDays |-> 25, winRate |-> 62, concentration |-> 28, timing |-> 80,
      volume |-> 18000],
     [ageDays |-> 11, winRate |-> 74, concentration |-> 52, timing |-> 50,
      volume |-> 42000],
     [ageDays |-> 2, winRate |-> 94, concentration |-> 88, timing |-> 14,
      volume |-> 195000],
     [ageDays |-> 7, winRate |-> 81, concentration |-> 64, timing |-> 34,
      volume |-> 62000] >>

\* seedData scores walletMetrics, which has no totalVolume, and stores the
\* profile's volume in the wallet.  The address is random; here 100 + index.
seedData ==
  [i \in DOMAIN walletProfiles |->
     LET profile == walletProfiles[i]
         walletMetrics ==
           [accountAgeDays |-> profile.ageDays,
            winRate |-> profile.winRate,
            portfolioConcentration |-> profile.concentration,
            avgTimingProximity |-> profile.timing,
            totalVolume |-> Undefined]
         riskScore == calculateRiskScore(walletMetrics)
     IN Wallet(100 + i, riskScore, profile.winRate, profile.volume,
               profile.ageDays, profile.concentration, profile.timing,
               shouldFlagWallet(riskScore))]

\* The wallets a storage starts with.
Seeded(b) == IF b = "MemStorage" THEN seedData ELSE << >>

Addresses == 1..MaxWallets

\* The InsertWallet arguments tried: address and metrics (the age possibly
\* missing), and the riskScore and isFlagged the caller put in.
WalletInserts ==
  [address : Addresses,
   accountAgeDays : {Undefined, 3},
   winRate : {70, 92},
   portfolioConcentration : {30},
   avgTimingProximity : {72},
   totalVolume : {125000},
   riskScore : {10, 80},
   isFlagged : BOOLEAN]

\* MemStorage.createWallet scores the insert as it is; the wallet's missing
\* fields become 0 (timing 72).
MemCreateWallet(ins) ==
  LET riskScore == calculateRiskScore(ins)
  IN Wallet(ins.address, riskScore, OrElse(ins.winRate, 0),
            OrElse(ins.totalVolume, 0), OrElse(ins.accountAgeDays, 0),
            OrElse(ins.portfolioConcentration, 0),
            OrElse(ins.avgTimingProximity, 72), shouldFlagWallet(riskScore))

\* PolymarketStorage.createWallet scores the metrics with the defaults 30,
\* 0.5, 0.3, 72, 0 and stores them with the defaults 0, 0, 0, 72, 0.
LiveCreateWallet(ins) ==
  LET riskScore ==
        calculateRiskScore(
          [accountAgeDays |-> OrElse(ins.accountAgeDays, 30),
           winRate |-> OrElse(ins.winRate, 50),
           portfolioConcentration |-> OrElse(ins.portfolioConcentration, 30),
           avgTimingProximity |-> OrElse(ins.avgTimingProximity, 72),
           totalVolume |-> OrElse(ins.totalVolume, 0)])
  IN Wallet(ins.address, riskScore, OrElse(ins.winRate, 0),
            OrElse(ins.totalVolume, 0), OrElse(ins.accountAgeDays, 0),
            OrElse(ins.portfolioConcentration, 0),
            OrElse(ins.avgTimingProximity, 72), shouldFlagWallet(riskScore))

\* PostgresStorage.createWallet inserts the row as given.
PgCreateWallet(ins) ==
  Wallet(ins.address, ins.riskScore, ins.winRate, ins.totalVolume,
         ins.accountAgeDays, ins.portfolioConcentration,
         ins.avgTimingProximity, ins.isFlagged)

\* The metrics analyzeWalletsFromTrades derives from one address's trades.
AnalysedMetrics ==
  [accountAgeDays : {30},
   winRate : {70, 92},
   portfolioConcentration : {30},
   avgTimingProximity : {72},
   totalVolume : {0, 125000}]

\* Only wallets with some risk indicators are tracked.
Tracked(m) == calculateRiskScore(m) >= 20 \/ m.totalVolume > 1000

AnalysedWallet(address, m) ==
  LET riskScore == calculateRiskScore(m)
  IN Wallet(address, riskScore, m.winRate, m.totalVolume, m.accountAgeDays,
            m.portfolioConcentration, m.avgTimingProximity,
            shouldFlagWallet(riskScore))

\* PolymarketStorage: the cache is cleared and refilled, one wallet for each
\* tracked address, ms[a] being the metrics of address a.
RECURSIVE LiveAnalyse(_, _)
LiveAnalyse(ms, a) ==
  IF a > Len(ms) THEN << >>
  ELSE IF Tracked(ms[a])
  THEN << AnalysedWallet(a, ms[a]) >> \o LiveAnalyse(ms, a + 1)
  ELSE LiveAnalyse(ms, a + 1)

\* insert ... onConflictDoUpdate({ target: wallets.address, set: ... })
Upsert(table, w) ==
  IF \E i \in DOMAIN table : table[i].address = w.address
  THEN [i \in DOMAIN table |->
          IF table[i].address = w.address THEN w ELSE table[i]]
  ELSE Append(table, w)

\* PostgresStorage: each tracked address is upserted; other rows stay.
RECURSIVE PgAnalyse(_, _, _)
PgAnalyse(table, ms, a) ==
  IF a > Len(ms) THEN table
  ELSE IF Tracked(ms[a])
  THEN PgAnalyse(Upsert(table, AnalysedWallet(a, ms[a])), ms, a + 1)
  ELSE PgAnalyse(table, ms, a + 1)

\* Array.prototype.sort((a, b) => b.riskScore - a.riskScore), which is
\* stable; ORDER BY risk_score DESC. An element comes before another when
\* its score is higher, or equal and it stood before it.
SortByRiskScore(list) ==
  LET Before(i, j) ==
        \/ list[i].riskScore > list[j].riskScore
        \/ list[i].riskScore = list[j].riskScore /\ i < j
      Place(i) == Cardinality({j \in DOMAIN list : Before(j, i)}) + 1
  IN [k \in DOMAIN list |-> list[CHOOSE i \in DOMAIN list : Place(i) = k]]

\* ORDER BY win_rate DESC
RECURSIVE InsertByWinRate(_, _)
InsertByWinRate(sorted, w) ==
  IF sorted = << >> THEN << w >>
  ELSE IF w.winRate > Head(sorted).winRate THEN << w >> \o sorted
  ELSE << Head(sorted) >> \o InsertByWinRate(Tail(sorted), w)

RECURSIVE SortByWinRate(_)
SortByWinRate(list) ==
  IF list = << >> THEN << >>
  ELSE InsertByWinRate(SortByWinRate(SubSeq(list, 1, Len(list) - 1)),
                       list[Len(list)])

\* .filter(w => w.isFlagged && w.riskScore >= RISK_THRESHOLDS.MEDIUM)
IsFlaggedWallet(w) == w.isFlagged /\ w.riskScore >= RISK_THRESHOLDS.MEDIUM

\* .filter(w => w.winRate > 0.7)
IsHistoricalWallet(w) == w.winRate > 70

\* getFlaggedWallets: the in-memory storages filter on the flag and the
\* score; PostgresStorage selects WHERE is_flagged = true.
FlaggedWallets(b, table) ==
  IF b = "PostgresStorage"
  THEN SortByRiskScore(SelectSeq(table, LAMBDA w : w.isFlagged))
  ELSE SortByRiskScore(SelectSeq(table, IsFlaggedWallet))

\* getHistoricalWallets: the in-memory storages filter on the win rate;
\* PostgresStorage selects every row, ordered by win rate.
HistoricalWallets(b, table) ==
  IF b = "PostgresStorage"
  THEN SortByWinRate(table)
  ELSE SortByRiskScore(SelectSeq(table, IsHistoricalWallet))

WalletInit ==
  /\ ServerAtRest
  /\ RestAtRest
  /\ ScoreAtRest
  /\ PageAtRest
  /\ backend \in Backends
  /\ wallets = Seeded(backend)
  /\ returned = NoRead

\* createWallet(insertWallet).  PostgresStorage: the row needs the columns
\* that have no default here, and a second row with the same address is
\* refused by the unique constraint.
CreateWallet(ins) ==
  /\ Len(wallets) < Len(Seeded(backend)) + MaxWallets
  /\ CASE backend = "MemStorage" ->
            wallets' = Append(wallets, MemCreateWallet(ins))
       [] backend = "PolymarketStorage" ->
            wallets' = Append(wallets, LiveCreateWallet(ins))
       [] backend = "PostgresStorage" ->
            /\ ins.accountAgeDays # Undefined
            /\ \A i \in DOMAIN wallets : wallets[i].address # ins.address
            /\ wallets' = Append(wallets, PgCreateWallet(ins))
  /\ UNCHANGED <<backend, returned, serverVars, scoreVars, pageVars,
                 restVars>>

\* A refresh rebuilds the wallets from the trades (MemStorage has none).
AnalyzeWalletsFromTrades(ms) ==
  /\ backend # "MemStorage"
  /\ wallets' = IF backend = "PolymarketStorage"
                THEN LiveAnalyse(ms, 1)
                ELSE PgAnalyse(wallets, ms, 1)
  /\ UNCHANGED <<backend, returned, serverVars, scoreVars, pageVars,
                 restVars>>

GetWalletRiskFactors(i) ==
  /\ i \in DOMAIN wallets
  /\ returned' = [method |-> "getWalletRiskFactors", data |-> << wallets[i] >>,
                  index |-> i, factors |-> calculateRiskFactors(wallets[i])]
  /\ UNCHANGED <<backend, wallets, serverVars, scoreVars, pageVars,
                 restVars>>

GetFlaggedWallets ==
  /\ returned' = [NoRead EXCEPT
                    !.method = "getFlaggedWallets",
                    !.data = paginate(FlaggedWallets(backend, wallets),
                                      NoOptions).data]
  /\ UNCHANGED <<backend, wallets, serverVars, scoreVars, pageVars,
                 restVars>>

GetHistoricalWallets ==
  /\ returned' = [NoRead EXCEPT
                    !.method = "getHistoricalWallets",
                    !.data = paginate(HistoricalWallets(backend, wallets),
                                      NoOptions).data]
  /\ UNCHANGED <<backend, wallets, serverVars, scoreVars, pageVars,
                 restVars>>

\* The sequences of at most n elements of S.
SeqsUpTo(S, n) == UNION {[1..k -> S] : k \in 0..n}

WalletNext ==
  \/ \E ins \in WalletInserts : CreateWallet(ins)
  \/ \E ms \in SeqsUpTo(AnalysedMetrics, MaxWallets) :
       AnalyzeWalletsFromTrades(ms)
  \/ \E i \in 1..(Len(walletProfiles) + MaxWallets) : GetWalletRiskFactors(i)
  \/ GetFlaggedWallets
  \/ GetHistoricalWallets

WalletSpec == WalletInit /\ [][WalletNext]_vars

---------------------------------------------------------------------------
(* parsePagination and the paginated routes (server/routes.ts)             *)

\* The longest limit and offset query strings tried, and the longest list.
MaxLimitLen == 3
MaxOffsetLen == 2
MaxItems == 3

\* A query string is a sequence of characters.
Chars == {"-", "0", "2", "x"}

DigitValue(c) == IF c = "0" THEN 0 ELSE 2
IsDigit(c) == c \in {"0", "2"}

NaN == [nan |-> TRUE, value |-> 0]
Number(n) == [nan |-> FALSE, value |-> n]

\* The value of the longest prefix of digits of s, after acc.
RECURSIVE DigitPrefix(_, _)
DigitPrefix(s, acc) ==
  IF s = << >> \/ ~IsDigit(Head(s)) THEN acc
  ELSE DigitPrefix(Tail(s), 10 * acc + DigitValue(Head(s)))

\* parseInt(s, 10): an optional sign, then the digits up to the first other
\* character; NaN when there is no digit.
parseInt(s) ==
  LET negative == s # << >> /\ Head(s) = "-"
      digits == IF negative THEN Tail(s) ELSE s
  IN IF digits = << >> \/ ~IsDigit(Head(digits)) THEN NaN
     ELSE Number(IF negative THEN 0 - DigitPrefix(digits, 0)
                 ELSE DigitPrefix(digits, 0))

\* query.limit ? ... : ..., false for a missing and for an empty parameter
Truthy(s) == s # Absent /\ s # << >>

parsePagination(q) ==
  LET limit == IF Truthy(q.limit) THEN parseInt(q.limit)
               ELSE Number(DEFAULT_PAGINATION.limit)
      offset == IF Truthy(q.offset) THEN parseInt(q.offset)
                ELSE Number(DEFAULT_PAGINATION.offset)
  IN Options(IF limit.nan THEN DEFAULT_PAGINATION.limit
             ELSE Min(limit.value, DEFAULT_PAGINATION.maxLimit),
             IF offset.nan THEN DEFAULT_PAGINATION.offset
             ELSE Max(0, offset.value))

QueryStrings(n) == SeqsUpTo(Chars, n) \cup {Absent}

\* The sorted list a storage hands to paginate, n items long.
Items(n) == [i \in 1..n |-> i]

PageInit ==
  /\ ServerAtRest
  /\ RestAtRest
  /\ ScoreAtRest
  /\ WalletAtRest
  /\ query \in [limit : QueryStrings(MaxLimitLen),
                offset : QueryStrings(MaxOffsetLen)]
  /\ items \in 0..MaxItems
  /\ options = NoOptions
  /\ page = NoPage

\* app.get("/api/wallets"): parsePagination, then storage.getWallets, which
\* paginates its sorted list; the result is sent as it is.
ApiGetWallets ==
  /\ ~page.done
  /\ options' = parsePagination(query)
  /\ page' = paginate(Items(items), options')
  /\ UNCHANGED <<query, items, serverVars, scoreVars, walletVars,
                 restVars>>

PageNext == ApiGetWallets

PageSpec == PageInit /\ [][PageNext]_vars

---------------------------------------------------------------------------
(* The rows a refresh leaves in a storage                                  *)
(*                                                                         *)
(* An id is a number: randomUUID() and the database's id default return a  *)
(* value never returned before, here the next number; a conditionId is a   *)
(* number above 100.  A mean is the whole part of sum / count.             *)

\* The most addresses in a trades response, the most trades in it, and the
\* most refreshes that get through.
MaxAddresses == 2
MaxTrades == 2
MaxRefreshes == 2

TraderAddresses == 1..MaxAddresses

\* Market 101 is listed by the markets endpoint or not; market 102 is only
\* ever named by trades.
ConditionIds == {101, 102}
MarketLists == {<< >>, << 101 >>}

Trades == [proxyWallet : TraderAddresses, conditionId : ConditionIds]

\* What analyzeWalletTrades and the age estimate give for an address: a
\* wallet that is not tracked (score 8), one of medium risk (48), one of
\* high risk (68).
TradeAnalyses ==
  { [accountAgeDays |-> 30, winRate |-> 70, portfolioConcentration |-> 30,
     avgTimingProximity |-> 72, totalVolume |-> 0],
    [accountAgeDays |-> 3, winRate |-> 92, portfolioConcentration |-> 30,
     avgTimingProximity |-> 72, totalVolume |-> 500],
    [accountAgeDays |-> 3, winRate |-> 92, portfolioConcentration |-> 85,
     avgTimingProximity |-> 72, totalVolume |-> 500] }

Quiet == CHOOSE m \in TradeAnalyses : calculateRiskScore(m) < 20

Traders(trades) == {trades[i].proxyWallet : i \in DOMAIN trades}

\* The upstream data of one refresh: the markets listed, the trades, and
\* the metrics that the trades of each address amount to at that time.
Fetches ==
  {f \in [markets : MarketLists,
          trades : SeqsUpTo(Trades, MaxTrades),
          metrics : [TraderAddresses -> TradeAnalyses]] :
     \A a \in TraderAddresses \ Traders(f.trades) : f.metrics[a] = Quiet}

Rows(m, w, x, n) == [markets |-> m, wallets |-> w, transactions |-> x,
                     uuid |-> n]

MarketRow(id, conditionId, count, avg) ==
  [id |-> id, conditionId |-> conditionId, suspiciousWalletCount |-> count,
   avgRiskScore |-> avg]

WalletRow(id, address, riskScore) ==
  [id |-> id, address |-> address, riskScore |-> riskScore]

TransactionRow(id, walletId, marketId) ==
  [id |-> id, walletId |-> walletId, marketId |-> marketId]

\* walletTrades: the addresses in the order they first appear in the trades.
RECURSIVE FirstSeen(_, _)
FirstSeen(trades, seen) ==
  IF trades = << >> THEN << >>
  ELSE IF Head(trades).proxyWallet \in seen
  THEN FirstSeen(Tail(trades), seen)
  ELSE << Head(trades).proxyWallet >>
         \o FirstSeen(Tail(trades), seen \cup {Head(trades).proxyWallet})

TradesOf(trades, a) == SelectSeq(trades, LAMBDA t : t.proxyWallet = a)

\* reduce((sum, w) => sum + w.riskScore, 0) over the wallets with these ids
RECURSIVE SumRiskScore(_, _)
SumRiskScore(ws, ids) ==
  IF ws = << >> THEN 0
  ELSE (IF Head(ws).id \in ids THEN Head(ws).riskScore ELSE 0)
         + SumRiskScore(Tail(ws), ids)

Mean(sum, count) == IF count > 0 THEN sum \div count ELSE 0

WalletIdsIn(txs, marketId) ==
  {txs[i].walletId : i \in {j \in DOMAIN txs : txs[j].marketId = marketId}}

\* The ids among `ids` of the wallets whose riskScore is at least `least`.
Suspicious(ws, ids, least) ==
  {ws[i].id : i \in {j \in DOMAIN ws :
                       ws[j].id \in ids /\ ws[j].riskScore >= least}}

(* PolymarketStorage *)

\* marketCache.clear(), then one market for each listed market, with
\* id = conditionId and zero statistics (convertPolymarketMarket).
LiveMarkets(listed) ==
  [i \in DOMAIN listed |-> MarketRow(listed[i], listed[i], 0, 0)]

\* analyzeWalletsFromTrades after the two clear() calls: each tracked
\* address gets a wallet with a new id, and each of its trades a transaction
\* with a new id whose marketId is the trade's conditionId.
RECURSIVE LiveAnalyseTrades(_, _, _)
LiveAnalyseTrades(d, f, addresses) ==
  IF addresses = << >> THEN d
  ELSE LET a == Head(addresses)
           list == TradesOf(f.trades, a)
           walletId == d.uuid + 1
           w == WalletRow(walletId, a, calculateRiskScore(f.metrics[a]))
           txs == [i \in DOMAIN list |->
                     TransactionRow(walletId + i, walletId,
                                    list[i].conditionId)]
       IN IF Tracked(f.metrics[a])
          THEN LiveAnalyseTrades(
                 Rows(d.markets, Append(d.wallets, w),
                      d.transactions \o txs, walletId + Len(list)),
                 f, Tail(addresses))
          ELSE LiveAnalyseTrades(d, f, Tail(addresses))

\* updateMarketStats: every market that has transactions gets the number
\* and the mean riskScore of its wallets with
\* riskScore >= RISK_THRESHOLDS.HIGH.
LiveUpdateMarketStats(d) ==
  Rows([i \in DOMAIN d.markets |->
          LET m == d.markets[i]
              ids == WalletIdsIn(d.transactions, m.id)
              sus == Suspicious(d.wallets, ids, RISK_THRESHOLDS.HIGH)
          IN IF ids = {} THEN m
             ELSE MarketRow(m.id, m.conditionId, Cardinality(sus),
                            Mean(SumRiskScore(d.wallets, sus),
                                 Cardinality(sus)))],
       d.wallets, d.transactions, d.uuid)

\* Lines 166-179 of refreshData.
LiveRefresh(d, f) ==
  LiveUpdateMarketStats(
    LiveAnalyseTrades(Rows(LiveMarkets(f.markets), << >>, << >>, d.uuid),
                      f, FirstSeen(f.trades, {})))

(* PostgresStorage *)

HasMarket(ms, c) == \E i \in DOMAIN ms : ms[i].conditionId = c
MarketOf(ms, c) == ms[CHOOSE i \in DOMAIN ms : ms[i].conditionId = c]

HasWallet(ws, a) == \E i \in DOMAIN ws : ws[i].address = a
WalletOf(ws, a) == ws[CHOOSE i \in DOMAIN ws : ws[i].address = a]

\* (an insert that ignores the unique key)
PgInsertMarketAgain(d, c) ==
  Rows(Append(d.markets, MarketRow(d.uuid + 1, c, 0, 0)), d.wallets,
       d.transactions, d.uuid + 1)

\* insert(markets).values(market).onConflictDoUpdate({ target: conditionId,
\* set: name, category, resolutionTime, totalVolume, isResolved }): a new
\* row with zero statistics, or the old row with its id and statistics.
PgUpsertMarket(d, c) ==
  IF HasMarket(d.markets, c) THEN d
  ELSE Rows(Append(d.markets, MarketRow(d.uuid + 1, c, 0, 0)), d.wallets,
            d.transactions, d.uuid + 1)

RECURSIVE PgUpsertListed(_, _)
PgUpsertListed(d, listed) ==
  IF listed = << >> THEN d
  ELSE PgUpsertListed(PgUpsertMarket(d, Head(listed)), Tail(listed))

\* insert(wallets).onConflictDoUpdate({ target: wallets.address, ... })
PgUpsertWallet(d, a, riskScore) ==
  IF HasWallet(d.wallets, a)
  THEN Rows(d.markets,
            [i \in DOMAIN d.wallets |->
               IF d.wallets[i].address = a
               THEN WalletRow(d.wallets[i].id, a, riskScore)
               ELSE d.wallets[i]],
            d.transactions, d.uuid)
  ELSE Rows(d.markets, Append(d.wallets, WalletRow(d.uuid + 1, a, riskScore)),
            d.transactions, d.uuid + 1)

\* delete(transactions).where(eq(transactions.walletId, insertedWallet.id))
PgDeleteTransactions(d, walletId) ==
  Rows(d.markets, d.wallets,
       SelectSeq(d.transactions, LAMBDA t : t.walletId # walletId), d.uuid)

\* One trade: the market is looked up by conditionId and created from the
\* trade if there is none; then the transaction is inserted.
PgInsertTransaction(d, walletId, trade) ==
  LET withMarket ==
        IF HasMarket(d.markets, trade.conditionId) THEN d
        ELSE Rows(Append(d.markets,
                         MarketRow(d.uuid + 1, trade.conditionId, 0, 0)),
                  d.wallets, d.transactions, d.uuid + 1)
      marketId == MarketOf(withMarket.markets, trade.conditionId).id
  IN Rows(withMarket.markets, withMarket.wallets,
          Append(withMarket.transactions,
                 TransactionRow(withMarket.uuid + 1, walletId, marketId)),
          withMarket.uuid + 1)

RECURSIVE PgInsertTransactions(_, _, _)
PgInsertTransactions(d, walletId, list) ==
  IF list = << >> THEN d
  ELSE PgInsertTransactions(PgInsertTransaction(d, walletId, Head(list)),
                            walletId, Tail(list))

RECURSIVE PgAnalyseTrades(_, _, _)
PgAnalyseTrades(d, f, addresses) ==
  IF addresses = << >> THEN d
  ELSE LET a == Head(addresses)
           upserted == PgUpsertWallet(d, a, calculateRiskScore(f.metrics[a]))
           walletId == WalletOf(upserted.wallets, a).id
       IN IF Tracked(f.metrics[a])
          THEN PgAnalyseTrades(
                 PgInsertTransactions(PgDeleteTransactions(upserted, walletId),
                                      walletId, TradesOf(f.trades, a)),
                 f, Tail(addresses))
          ELSE PgAnalyseTrades(d, f, Tail(addresses))

\* updateMarketStats: a market without transactions, or without a wallet of
\* riskScore >= RISK_THRESHOLDS.MEDIUM among them, is skipped; the others
\* get the number and the mean riskScore of those wallets.
PgUpdateStats(d) ==
  Rows([i \in DOMAIN d.markets |->
          LET m == d.markets[i]
              ids == WalletIdsIn(d.transactions, m.id)
              sus == Suspicious(d.wallets, ids, RISK_THRESHOLDS.MEDIUM)
          IN IF sus = {} THEN m
             ELSE MarketRow(m.id, m.conditionId, Cardinality(sus),
                            Mean(SumRiskScore(d.wallets, sus),
                                 Cardinality(sus)))],
       d.wallets, d.transactions, d.uuid)

PgRefresh(d, f) ==
  PgUpdateStats(
    PgAnalyseTrades(PgUpsertListed(d, f.markets), f, FirstSeen(f.trades, {})))

\* The upstream returned to this refresh what it returned to the last one.
SameUpstream(last, f) ==
  /\ last.n > 0
  /\ last.markets = f.markets
  /\ last.trades = f.trades
  /\ last.metrics = f.metrics

Stored == Rows(marketRows, walletRows, transactionRows, uuid)

TableInit ==
  /\ ServerAtRest
  /\ ScoreAtRest
  /\ PageAtRest
  /\ backend \in Impls
  /\ wallets = << >>
  /\ returned = NoRead
  /\ marketRows = << >>
  /\ walletRows = << >>
  /\ transactionRows = << >>
  /\ uuid = 0
  /\ fetched = NoFetch
  /\ handed = {}
  /\ reply = NoReply
  /\ MoreAtRest

\* A refreshData() that gets through (the constructor's, or the one a read
\* method awaits before it reads), with the upstream data f.
RefreshTables(f) ==
  /\ fetched.n < MaxRefreshes
  /\ LET d == IF backend = "PolymarketStorage" THEN LiveRefresh(Stored, f)
              ELSE PgRefresh(Stored, f)
     IN /\ marketRows' = d.markets
        /\ walletRows' = d.wallets
        /\ transactionRows' = d.transactions
        /\ uuid' = d.uuid
  /\ fetched' = [n |-> fetched.n + 1, markets |-> f.markets,
                  trades |-> f.trades, metrics |-> f.metrics,
                  again |-> SameUpstream(fetched, f)]
  /\ UNCHANGED <<handed, reply, backend, wallets, returned, serverVars,
                 scoreVars, pageVars, moreVars>>

\* getWallets, once its refreshData() has returned: the wallets go to the
\* client, each with its id.
ListWallets ==
  /\ handed' = {[id |-> walletRows[i].id, address |-> walletRows[i].address] :
                  i \in DOMAIN walletRows}
  /\ handed' # handed
  /\ UNCHANGED <<marketRows, walletRows, transactionRows, uuid, fetched,
                 reply, backend, wallets, returned, serverVars, scoreVars,
                 pageVars, moreVars>>

\* (a refreshData that lets the error of a failed fetch out)
RefreshRethrows(r) == r = "failed"

\* refreshData() catches whatever the refresh throws and resolves.
RefreshThrows(r) == FALSE

\* What the refreshData() awaited by a lookup did: PolymarketStorage's
\* returned at a guard, or ran into a fetch that failed with nothing to fall
\* back to, which leaves the maps as they were; PostgresStorage's lookups
\* await none.
LookupRefreshes(b) ==
  IF b = "PolymarketStorage" THEN {"fresh", "failed"} ELSE {"none"}

Routes == {"/api/wallets/:id", "/api/wallets/:id/risk-factors",
           "/api/markets/:id"}

\* walletCache.get(id), marketCache.get(id), select ... where id = $1
Found(route, id) ==
  IF route = "/api/markets/:id"
  THEN \E i \in DOMAIN marketRows : marketRows[i].id = id
  ELSE \E i \in DOMAIN walletRows : walletRows[i].id = id

\* The ids a client may ask for: every id issued so far, the conditionIds,
\* and one that was never issued.
LookupIds == (1..(uuid + 1)) \cup ConditionIds

\* The three single-resource routes: the storage method resolves to the
\* item or to undefined, or rejects; the handler answers 200 with the item,
\* 404 with an error body, or 500.
Lookup(route, id, r) ==
  /\ reply' = [route |-> route, id |-> id,
               status |-> IF RefreshThrows(r) THEN 500
                          ELSE IF Found(route, id) THEN 200 ELSE 404,
               body |-> IF ~RefreshThrows(r) /\ Found(route, id) THEN id
                        ELSE 0,
               refresh |-> r]
  /\ UNCHANGED <<marketRows, walletRows, transactionRows, uuid, fetched,
                 handed, backend, wallets, returned, serverVars, scoreVars,
                 pageVars, moreVars>>

TableNext ==
  \/ \E f \in Fetches : RefreshTables(f)
  \/ ListWallets

TableSpec == TableInit /\ [][TableNext]_vars

\* The most refreshes that get through before the lookups.
MaxLookupRefreshes == 1

RefreshOnce(f) ==
  /\ fetched.n < MaxLookupRefreshes
  /\ RefreshTables(f)

\* The storage as the single-resource routes see it.
LookupNext ==
  \/ \E f \in Fetches : RefreshOnce(f)
  \/ \E route \in Routes, id \in LookupIds, r \in LookupRefreshes(backend) :
       Lookup(route, id, r)

LookupSpec == TableInit /\ [][LookupNext]_vars

---------------------------------------------------------------------------
(* The earnings alerts of PolymarketStorage, by content *)

\* The most refreshEarningsData() runs that get past the guards.
MaxEarningsRefreshes == 2

Symbols == {"AAPL", "MSFT"}

\* What getEarningsCalendar(30) can return: at most one event per symbol, due
\* in 5 days or in 31; the empty calendar is an answer of the API with no
\* S&P 500 company in it.
EarningsEvents == [symbol : Symbols, daysUntil : {5, 31}]

Calendars ==
  {c \in SUBSET EarningsEvents :
     \A e1 \in c, e2 \in c : e1.symbol = e2.symbol => e1 = e2}

\* What getMarkets returns: up to two markets, each an earnings question
\* about one company or no earnings question at all.
EarningsMarkets ==
  {<< >>}
    \cup {<<[conditionId |-> 101, about |-> s]>> : s \in Symbols \cup {"none"}}
    \cup {<<[conditionId |-> 101, about |-> s],
            [conditionId |-> 102, about |-> t]>> :
            s \in Symbols \cup {"none"}, t \in Symbols \cup {"none"}}

\* matchMarketToEarnings: the event whose company the question names, or
\* none.
matchMarketToEarnings(market, events) ==
  {e \in events : e.symbol = market.about}

\* The alert the loop builds for a matched market; its id is
\* `${symbol}-${marketId}`.
Alert(e, market) ==
  [id |-> <<e.symbol, market.conditionId>>, symbol |-> e.symbol,
   daysUntilEarnings |-> e.daysUntil, matchedMarketId |-> market.conditionId]

\* The alerts the loop over polymarkets sets: one per matched market whose
\* earnings are due within 30 days.
Alerts(events, markets) ==
  {Alert(m[1], markets[m[2]]) :
     m \in {x \in events \X DOMAIN markets :
              /\ x[1] \in matchMarketToEarnings(markets[x[2]], events)
              /\ x[1].daysUntil >= 0
              /\ x[1].daysUntil <= 30}}

\* The early return of refreshEarningsData: no earnings events.
ReturnsEarly(events) == events = {}

EarningsInit ==
  /\ ServerAtRest
  /\ ScoreAtRest
  /\ WalletAtRest
  /\ PageAtRest
  /\ TablesAtRest
  /\ alertCache = {}
  /\ earningsRun = NoRun
  /\ TradesAtRest
  /\ StatsAtRest
  /\ ClientAtRest
  /\ QuotaAtRest

\* A refreshEarningsData() that got past its guards: the calendar is
\* fetched; when it is empty the time is recorded and the method returns;
\* otherwise the markets are fetched, which throws when the fetch fails with
\* nothing cached, the cache is cleared and refilled, and the time is
\* recorded.
RefreshAlerts(events, markets, fetch) ==
  /\ earningsRun.n < MaxEarningsRefreshes
  /\ IF ReturnsEarly(events)
     THEN /\ markets = << >>
          /\ fetch = "none"
          /\ alertCache' = alertCache
          /\ earningsRun' = [n |-> earningsRun.n + 1, events |-> events,
                              markets |-> << >>, outcome |-> "empty",
                              recorded |-> TRUE]
     ELSE IF fetch = "failed"
     THEN /\ markets = << >>
          /\ alertCache' = alertCache
          /\ earningsRun' = [n |-> earningsRun.n + 1, events |-> events,
                              markets |-> << >>, outcome |-> "failed",
                              recorded |-> FALSE]
     ELSE /\ fetch = "ok"
          /\ alertCache' = Alerts(events, markets)
          /\ earningsRun' = [n |-> earningsRun.n + 1, events |-> events,
                              markets |-> markets, outcome |-> "ok",
                              recorded |-> TRUE]
  /\ UNCHANGED <<serverVars, scoreVars, walletVars, pageVars, tableVars,
                 tradeVars, statsVars, optVars, quotaVars>>

EarningsNext ==
  \E events \in Calendars, markets \in EarningsMarkets,
     fetch \in {"none", "ok", "failed"} :
       RefreshAlerts(events, markets, fetch)

EarningsSpec == EarningsInit /\ [][EarningsNext]_vars

---------------------------------------------------------------------------
(* PolymarketClient.analyzeWalletTrades *)

\* The longest list of trades analysed.
MaxTradeList == 3

\* A trade: its side, its price in hundredths (0.5 is 50) and its size.
WalletTrades == [side : {"BUY", "SELL"}, price : {49, 50, 51}, size : {100}]

TradeLists == SeqsUpTo(WalletTrades, MaxTradeList)

\* (a sale at exactly 0.5 taken for a win)
AtLeastHalf(price) == price >= 50

\* trade.price > 0.5
AboveHalf(price) == price > 50

\* trade.price < 0.5
BelowHalf(price) == price < 50

\* The loop over the trades: wins++ for a SELL above 0.5, else for a BUY
\* below 0.5.
RECURSIVE CountWins(_)
CountWins(trades) ==
  IF trades = << >> THEN 0
  ELSE LET trade == Head(trades)
           won == IF trade.side = "SELL" /\ AboveHalf(trade.price) THEN 1
                  ELSE IF trade.side = "BUY" /\ BelowHalf(trade.price) THEN 1
                  ELSE 0
       IN won + CountWins(Tail(trades))

\* totalVolume += trade.size * trade.price, in hundredths.
RECURSIVE SumVolume(_)
SumVolume(trades) ==
  IF trades = << >> THEN 0
  ELSE Head(trades).size * Head(trades).price + SumVolume(Tail(trades))

\* a / b as the fraction it is; 0 is 0 / 1.
Quotient(a, b) == [num |-> a, den |-> b]

analyzeWalletTrades(trades) ==
  IF Len(trades) = 0
  THEN [done |-> TRUE, winRate |-> Quotient(0, 1), totalBets |-> 0,
        totalVolume |-> 0]
  ELSE LET totalTrades == Len(trades)
           wins == CountWins(trades)
       IN [done |-> TRUE,
           winRate |-> IF totalTrades > 0 THEN Quotient(wins, totalTrades)
                       ELSE Quotient(0, 1),
           totalBets |-> totalTrades,
           totalVolume |-> SumVolume(trades)]

TradeInit ==
  /\ ServerAtRest
  /\ ScoreAtRest
  /\ WalletAtRest
  /\ PageAtRest
  /\ TablesAtRest
  /\ AlertsAtRest
  /\ StatsAtRest
  /\ ClientAtRest
  /\ QuotaAtRest
  /\ walletTrades \in TradeLists
  /\ analysis = NoAnalysis

AnalyzeWalletTrades ==
  /\ ~analysis.done
  /\ analysis' = analyzeWalletTrades(walletTrades)
  /\ UNCHANGED <<walletTrades, serverVars, scoreVars, walletVars, pageVars,
                 tableVars, alertVars, statsVars, optVars, quotaVars>>

TradeNext == AnalyzeWalletTrades

TradeSpec == TradeInit /\ [][TradeNext]_vars

---------------------------------------------------------------------------
(* getDashboardStats *)

\* The most wallets with a risk score of 60 or more a storage holds: one
\* more than a default page.
MaxHighRisk == 51

\* A wallet as the analysis stores it: flagged from a score of 40.
ScoredWallet(address, riskScore) ==
  Wallet(address, riskScore, 50, 125000, 30, 50, 24,
         riskScore >= RISK_THRESHOLDS.MEDIUM)

\* The wallets held, in insertion order: l with score 8, then m with score
\* 48, then h with score 68.
Holdings(l, m, h) ==
  [i \in 1..(l + m + h) |->
     ScoredWallet(i, IF i <= l THEN 8 ELSE IF i <= l + m THEN 48 ELSE 68)]

IsHighRisk(w) == w.riskScore >= RISK_THRESHOLDS.HIGH

\* getDashboardStats. PolymarketStorage (like MemStorage) takes the first
\* page of getFlaggedWallets() and counts in it; PostgresStorage counts rows.
getDashboardStats(b, table) ==
  IF b = "PostgresStorage"
  THEN [done |-> TRUE,
        totalFlaggedToday |-> Len(SelectSeq(table, LAMBDA w : w.isFlagged)),
        highRiskCount |-> Len(SelectSeq(table, IsHighRisk))]
  ELSE LET flaggedResult == paginate(FlaggedWallets(b, table), NoOptions)
           highRisk == SelectSeq(flaggedResult.data, IsHighRisk)
       IN [done |-> TRUE,
           totalFlaggedToday |-> flaggedResult.total,
           highRiskCount |-> Len(highRisk)]

StatsInit ==
  /\ ServerAtRest
  /\ ScoreAtRest
  /\ PageAtRest
  /\ TablesAtRest
  /\ AlertsAtRest
  /\ TradesAtRest
  /\ ClientAtRest
  /\ QuotaAtRest
  /\ backend \in Impls
  /\ \E l \in 0..1, m \in 0..1, h \in 0..MaxHighRisk :
       wallets = Holdings(l, m, h)
  /\ returned = NoRead
  /\ dashboard = NoStats

GetDashboardStats ==
  /\ ~dashboard.done
  /\ dashboard' = getDashboardStats(backend, wallets)
  /\ UNCHANGED <<walletVars, serverVars, scoreVars, pageVars, tableVars,
                 alertVars, tradeVars, optVars, quotaVars>>

StatsNext == GetDashboardStats

StatsSpec == StatsInit /\ [][StatsNext]_vars

---------------------------------------------------------------------------
(* PolymarketClient: the options of a call and the data it returns *)

\* How far the client's clock runs, in quanta.
MaxClientTicks == 3

\* The limits the callers pass to getMarkets: refreshData 50,
\* refreshEarningsData 100, getUserPortfolio 200.
MarketLimits == {50, 100, 200}

\* The limits of getRecentTrades: its default and refreshData's.
TradeLimits == {1000, 2000}

Entry(limit, t) == [present |-> TRUE, limit |-> limit, timestamp |-> t]

Call(method, asked, for, from) ==
  [method |-> method, asked |-> asked, for |-> for, from |-> from]

\* getMarkets and getRecentTrades have the same shape: a valid cache entry
\* is returned whatever the options; otherwise the request is made with the
\* options of the call and its answer cached; when it fails, the stale entry
\* is returned if there is one, and the error thrown if not.
Fetch(method, cache, limit, outcome, t) ==
  IF isCacheValid(cache, t)
  THEN [cache |-> cache, got |-> Call(method, limit, cache.limit, "cache")]
  ELSE IF outcome = "ok"
  THEN [cache |-> Entry(limit, t), got |-> Call(method, limit, limit, "fetch")]
  ELSE IF cache.present
  THEN [cache |-> cache, got |-> Call(method, limit, cache.limit, "stale")]
  ELSE [cache |-> cache, got |-> Call(method, limit, 0, "error")]

ClientInit ==
  /\ ServerAtRest
  /\ ScoreAtRest
  /\ WalletAtRest
  /\ PageAtRest
  /\ TablesAtRest
  /\ AlertsAtRest
  /\ TradesAtRest
  /\ StatsAtRest
  /\ QuotaAtRest
  /\ clientClock = 0
  /\ cachedMarkets = NoCache
  /\ cachedTrades = NoCache
  /\ got = NoCall

ClientTick ==
  /\ clientClock < MaxClientTicks * Quantum
  /\ clientClock' = clientClock + Quantum
  /\ UNCHANGED <<cachedMarkets, cachedTrades, got, serverVars, scoreVars,
                 walletVars, pageVars, tableVars, alertVars, tradeVars,
                 statsVars, quotaVars>>

GetMarkets(limit, outcome) ==
  /\ LET r == Fetch("getMarkets", cachedMarkets, limit, outcome, clientClock)
     IN /\ cachedMarkets' = r.cache
        /\ got' = r.got
  /\ UNCHANGED <<clientClock, cachedTrades, serverVars, scoreVars,
                 walletVars, pageVars, tableVars, alertVars, tradeVars,
                 statsVars, quotaVars>>

GetRecentTrades(limit, outcome) ==
  /\ LET r == Fetch("getRecentTrades", cachedTrades, limit, outcome,
                    clientClock)
     IN /\ cachedTrades' = r.cache
        /\ got' = r.got
  /\ UNCHANGED <<clientClock, cachedMarkets, serverVars, scoreVars,
                 walletVars, pageVars, tableVars, alertVars, tradeVars,
                 statsVars, quotaVars>>

ClientNext ==
  \/ ClientTick
  \/ \E limit \in MarketLimits, outcome \in {"ok", "failed"} :
       GetMarkets(limit, outcome)
  \/ \E limit \in TradeLimits, outcome \in {"ok", "failed"} :
       GetRecentTrades(limit, outcome)

ClientSpec == ClientInit /\ [][ClientNext]_vars

---------------------------------------------------------------------------
(* The earnings client and the requests it sends *)

\* The most requests followed on one date, and the dates followed after the
\* first.
MaxSent == 251
MaxDays == 1

\* What fetch() can come to: a 200 with the expected body, a 200 whose body
\* is not what the code expects, a 403, another error status, no response.
FetchOutcomes == {"ok", "garbled", "403", "500", "failed"}

\* resetDailyCounterIfNeeded
resetDailyCounterIfNeeded(c) ==
  IF today # c.lastRequestDate
  THEN [c EXCEPT !.requestsToday = 0, !.lastRequestDate = today]
  ELSE c

\* canMakeRequest, on the counter as resetDailyCounterIfNeeded left it.
canMakeRequest(c) == c.requestsToday < 240

\* The client's counters and caches as one value.
Client ==
  [requestsToday |-> requestsToday, lastRequestDate |-> lastRequestDate,
   earningsCache |-> earningsCache, sp500Cache |-> sp500Cache,
   sentToday |-> sentToday]

\* getSP500Symbols: the cached list if valid; the fallback list, cached,
\* without a key or a request left; otherwise a request, counted once its
\* response is ok, and the list or (on any failure) the fallback cached.
getSP500Symbols(c, outcome) ==
  IF c.sp500Cache = "valid" THEN c
  ELSE IF ~apiKey THEN [c EXCEPT !.sp500Cache = "valid"]
  ELSE LET r == resetDailyCounterIfNeeded(c)
       IN IF ~canMakeRequest(r) THEN [r EXCEPT !.sp500Cache = "valid"]
          ELSE [r EXCEPT
                  !.sentToday = @ + 1,
                  !.requestsToday = IF outcome \in {"ok", "garbled"}
                                    THEN @ + 1 ELSE @,
                  !.sp500Cache = "valid"]

\* getEarningsCalendar: mock data without a key; the cached calendar if
\* valid; the cached calendar or mock data with no request left; otherwise
\* a request, counted once its response is ok, then getSP500Symbols and the
\* calendar cached; on a 403 or a failure the cached calendar or mock data.
getEarningsCalendar(c, outcome, inner) ==
  IF ~apiKey THEN c
  ELSE IF c.earningsCache = "valid" THEN c
  ELSE LET r == resetDailyCounterIfNeeded(c)
       IN IF ~canMakeRequest(r) THEN r
          ELSE LET s == [r EXCEPT !.sentToday = @ + 1]
               IN IF outcome \in {"403", "500", "failed"} THEN s
                  ELSE LET t == [s EXCEPT !.requestsToday = @ + 1]
                       IN IF outcome = "garbled" THEN t
                          ELSE [getSP500Symbols(t, inner) EXCEPT
                                  !.earningsCache = "valid"]

QuotaInit ==
  /\ ServerAtRest
  /\ ScoreAtRest
  /\ WalletAtRest
  /\ PageAtRest
  /\ TablesAtRest
  /\ AlertsAtRest
  /\ TradesAtRest
  /\ StatsAtRest
  /\ ClientAtRest
  /\ apiKey \in BOOLEAN
  /\ today = 1
  /\ requestsToday = 0
  /\ lastRequestDate = 0
  /\ earningsCache = "none"
  /\ sp500Cache = "none"
  /\ sentToday = 0

\* The inner fetch happens only after an ok response to the outer one.
GetEarningsCalendar(outcome, inner) ==
  /\ outcome # "ok" => inner = "ok"
  /\ LET c == getEarningsCalendar(Client, outcome, inner)
     IN /\ c.sentToday <= MaxSent
        /\ requestsToday' = c.requestsToday
        /\ lastRequestDate' = c.lastRequestDate
        /\ earningsCache' = c.earningsCache
        /\ sp500Cache' = c.sp500Cache
        /\ sentToday' = c.sentToday
  /\ UNCHANGED <<apiKey, today, serverVars, scoreVars, walletVars, pageVars,
                 tableVars, alertVars, tradeVars, statsVars, optVars>>

GetSP500Symbols(outcome) ==
  /\ LET c == getSP500Symbols(Client, outcome)
     IN /\ c.sentToday <= MaxSent
        /\ requestsToday' = c.requestsToday
        /\ lastRequestDate' = c.lastRequestDate
        /\ sp500Cache' = c.sp500Cache
        /\ sentToday' = c.sentToday
  /\ UNCHANGED <<apiKey, today, earningsCache, serverVars, scoreVars,
                 walletVars, pageVars, tableVars, alertVars, tradeVars,
                 statsVars, optVars>>

Older(cache) == IF cache = "valid" THEN "stale" ELSE cache

\* CACHE_TTL (30 minutes) passes: what was cached is no longer valid.
TtlPasses ==
  /\ earningsCache' = Older(earningsCache)
  /\ sp500Cache' = Older(sp500Cache)
  /\ UNCHANGED <<apiKey, today, requestsToday, lastRequestDate, sentToday,
                 serverVars, scoreVars, walletVars, pageVars, tableVars,
                 alertVars, tradeVars, statsVars, optVars>>

\* The date changes.
Midnight ==
  /\ today <= MaxDays
  /\ today' = today + 1
  /\ sentToday' = 0
  /\ UNCHANGED <<apiKey, requestsToday, lastRequestDate, earningsCache,
                 sp500Cache, serverVars, scoreVars, walletVars, pageVars,
                 tableVars, alertVars, tradeVars, statsVars, optVars>>

QuotaNext ==
  \/ \E outcome \in FetchOutcomes, inner \in FetchOutcomes :
       GetEarningsCalendar(outcome, inner)
  \/ \E outcome \in FetchOutcomes : GetSP500Symbols(outcome)
  \/ TtlPasses
  \/ Midnight

QuotaSpec == QuotaInit /\ [][QuotaNext]_vars

---------------------------------------------------------------------------
(* Vocabulary of the properties *)

\* The positions of refreshData() between setting isRefreshing and the
\* finally block.
RefreshPcs == {"getMarkets", "fetchMarkets", "getRecentTrades", "fetchTrades",
               "process", "pgMarkets", "pgWallets", "pgStats", "pgCounts",
               "finally"}

InRefresh(p) == proc[p].ctx = "data" /\ proc[p].pc \in RefreshPcs

\* The task p is about to run the step `what` of its read method.
About(p, what) ==
  /\ running = p
  /\ proc[p].pc = "next"
  /\ proc[p].plan # << >>
  /\ Head(proc[p].plan) = what

Stale == now - lastDataRefresh >= 5 * 60 * 1000

---------------------------------------------------------------------------
(* C1: at most one refresh is in progress at any time, and a refreshData()  *)
(* call made while isRefreshing is true returns at once: it sends no        *)
(* request, changes neither the storage nor the client's caches, and the    *)
(* caller goes on to its next step without ever running a refresh.          *)

C1_Inv ==
  /\ Cardinality({p \in Procs : InRefresh(p)}) <= 1
  /\ isRefreshing <=> \E p \in Procs : InRefresh(p)

C1_Dropped ==
  \A p \in Procs :
    (About(p, "refresh") /\ isRefreshing) =>
      /\ UNCHANGED <<storageVars, clientVars, committed>>
      /\ proc'[p].pc = "next"
      /\ proc'[p].plan = Tail(proc[p].plan)

C1_OneRefreshAtATime == []C1_Inv /\ [][C1_Dropped]_vars

C1_Witness ==
  \E p \in Readers, q \in Procs :
    /\ p # q
    /\ InRefresh(q)
    /\ proc[p].refreshed
    /\ About(p, "read")

---------------------------------------------------------------------------
(* C2: refreshData() sets isRefreshing only when, at the call,              *)
(* now - lastDataRefresh >= 5 minutes; a call made while the data is fresh  *)
(* changes no state and sends nothing.                                      *)

C2_StartsOnlyStale == (~isRefreshing /\ isRefreshing') => Stale

C2_FreshNoOp ==
  \A p \in Procs :
    (About(p, "refresh") /\ ~Stale) =>
      /\ UNCHANGED <<storageVars, clientVars, committed>>
      /\ proc'[p].pc = "next"
      /\ proc'[p].plan = Tail(proc[p].plan)

C2_RefreshOnlyWhenStale == [][C2_StartsOnlyStale /\ C2_FreshNoOp]_vars

C2_Witness ==
  \E p \in Readers :
    /\ About(p, "read")
    /\ proc[p].refreshed
    /\ ~isRefreshing
    /\ ~Stale
    /\ lastOutcome = "ok"

---------------------------------------------------------------------------
(* C3 (PolymarketStorage): a refresh that fails leaves lastDataRefresh as   *)
(* it was, so the data is still stale when the refresh has ended and the    *)
(* next read starts a new one; lastDataRefresh changes only in the step     *)
(* that completes a rebuild.                                                *)

C3_Inv ==
  impl = "PolymarketStorage" =>
    /\ \A p \in Procs :
         (InRefresh(p) /\ proc[p].failed) =>
           proc[p].now0 - lastDataRefresh >= 5 * 60 * 1000
    /\ (~isRefreshing /\ lastOutcome = "failed") => Stale

C3_OnlySuccessStamps ==
  (impl = "PolymarketStorage" /\ lastDataRefresh' # lastDataRefresh) =>
    \E p \in Procs :
      /\ proc[p].pc = "process"
      /\ proc'[p].pc = "finally"
      /\ ~proc'[p].failed

---------------------------------------------------------------------------
(* C4: on a successful refresh lastDataRefresh is set to the time at which  *)
(* the refresh completed, not to the time at which it was requested.        *)

C4_StampIsCompletionTime ==
  [][lastDataRefresh' # lastDataRefresh => lastDataRefresh' = now']_vars

---------------------------------------------------------------------------
(* C5: every refresh that sets isRefreshing (isRefreshingEarnings) ends     *)
(* with the flag false again, whether it succeeds or fails, provided every  *)
(* started I/O operation completes; and the flag is true only while a       *)
(* refresh is actually under way, so a refresh that has ended blocks no     *)
(* later read.                                                              *)

EarningsPcs == {"fetchCalendar", "getMarkets", "fetchMarkets", "eprocess",
                "efinally"}

InEarningsRefresh(p) == proc[p].ctx = "earn" /\ proc[p].pc \in EarningsPcs

C5_Inv ==
  /\ isRefreshing => \E p \in Procs : InRefresh(p)
  /\ isRefreshingEarnings => \E p \in Procs : InEarningsRefresh(p)

C5_RefreshReturnsToIdle ==
  /\ []C5_Inv
  /\ isRefreshing ~> ~isRefreshing
  /\ isRefreshingEarnings ~> ~isRefreshingEarnings

C5_Witness ==
  /\ ~isRefreshing
  /\ lastOutcome = "failed"
  /\ ~isRefreshingEarnings
  /\ lastEarningsRefresh > 0

---------------------------------------------------------------------------
(* C6 (PolymarketStorage): whenever a read method reads, the market,        *)
(* wallet and transaction maps with the per-market statistics are exactly   *)
(* what the last completed refresh left (or the initial empty maps).        *)

C6_ReadsSeeOneRefresh ==
  \A p \in Procs :
    (impl = "PolymarketStorage" /\ About(p, "read")) => Caches = committed

---------------------------------------------------------------------------
(* C7: reads within one TTL window cause one request per upstream endpoint, *)
(* also when a read arrives while a refresh is in flight: in particular no  *)
(* endpoint ever has two requests in flight at the same time.               *)

C7_OneFetchInFlight ==
  /\ Cardinality({p \in Procs : proc[p].pc = "fetchMarkets"}) <= 1
  /\ Cardinality({p \in Procs : proc[p].pc = "fetchTrades"}) <= 1

---------------------------------------------------------------------------
(* C8: a refresh started by a read after the storage TTL has expired, the   *)
(* previous refresh having succeeded, sends a request to each endpoint: the *)
(* client's entry for the endpoint is no longer valid when the refresh asks *)
(* the client for it.                                                       *)

Young(cache) == cache.present /\ now - cache.timestamp < 5 * 60 * 1000

C8_StaleReadFetches ==
  \A p \in Readers :
    (running = p /\ proc[p].ctx = "data" /\ lastOutcome = "ok") =>
      /\ proc[p].pc = "getMarkets" => ~Young(marketsCache)
      /\ proc[p].pc = "getRecentTrades" => ~Young(allTradesCache)

---------------------------------------------------------------------------
(* C9: every public read method of both storages has called refreshData()   *)
(* and waited for it before it reads.                                       *)

C9_ReadsRefreshFirst ==
  \A p \in Procs : About(p, "read") => proc[p].refreshed

---------------------------------------------------------------------------
(* C10: getMarkets and getRecentTrades send no request while their own      *)
(* entry is younger than 5 minutes and return the entry's data; and no step *)
(* of either (hit, miss, response, error) changes the other's entry.        *)

C10_HitSendsNothing ==
  \A p \in Procs :
    /\ (running = p /\ proc[p].pc = "getMarkets" /\ Young(marketsCache)) =>
         /\ proc'[p].pc \in {"getRecentTrades", "eprocess"}
         /\ proc'[p].polymarkets = marketsCache.data
         /\ UNCHANGED clientVars
    /\ (running = p /\ proc[p].pc = "getRecentTrades"
          /\ Young(allTradesCache)) =>
         /\ proc'[p].pc = "process"
         /\ proc'[p].recentTrades = allTradesCache.data
         /\ UNCHANGED clientVars

C10_Independent ==
  /\ marketsCache' # marketsCache =>
       /\ allTradesCache' = allTradesCache
       /\ \E p \in Procs : proc[p].pc = "fetchMarkets" /\ proc'[p] # proc[p]
  /\ allTradesCache' # allTradesCache =>
       /\ marketsCache' = marketsCache
       /\ \E p \in Procs : proc[p].pc = "fetchTrades" /\ proc'[p] # proc[p]

C10_ClientCache == [][C10_HitSendsNothing /\ C10_Independent]_vars

C10_Witness ==
  \E p \in Procs :
    /\ running = p
    /\ proc[p].pc = "process"
    /\ Young(allTradesCache)
    /\ allTradesCache.timestamp < now
    /\ proc[p].recentTrades = allTradesCache.data
    /\ marketsCache.timestamp # allTradesCache.timestamp

---------------------------------------------------------------------------
(* C11: when a request of getMarkets or getRecentTrades fails, the call     *)
(* returns the entry's data if there is an entry, stale or not, and throws  *)
(* otherwise; an entry changes only when a response arrives, and then to    *)
(* that response's body stamped with the time of arrival, so a failure      *)
(* neither alters the data nor renews the timestamp.                        *)

C11_Markets ==
  \A p \in Procs :
    (proc[p].pc = "fetchMarkets" /\ proc'[p].pc # "fetchMarkets") =>
      IF marketsCache' # marketsCache
      THEN /\ marketsCache'.present
           /\ marketsCache'.timestamp = now
           /\ marketsCache'.data.t = now
           /\ proc'[p].polymarkets = marketsCache'.data
      ELSE IF marketsCache.present
      THEN /\ proc'[p].polymarkets = marketsCache.data
           /\ proc'[p].pc = AfterMarkets(proc[p].ctx)
      ELSE /\ proc'[p].pc = Catch(proc[p].ctx)
           /\ proc'[p].failed

C11_Trades ==
  \A p \in Procs :
    (proc[p].pc = "fetchTrades" /\ proc'[p].pc # "fetchTrades") =>
      IF allTradesCache' # allTradesCache
      THEN /\ allTradesCache'.present
           /\ allTradesCache'.timestamp = now
           /\ allTradesCache'.data.t = now
           /\ proc'[p].recentTrades = allTradesCache'.data
      ELSE IF allTradesCache.present
      THEN /\ proc'[p].recentTrades = allTradesCache.data
           /\ proc'[p].pc = "process"
      ELSE /\ proc'[p].pc = "finally"
           /\ proc'[p].failed

C11_OnlyResponsesWrite ==
  /\ marketsCache' # marketsCache =>
       \E p \in Procs : proc[p].pc = "fetchMarkets" /\ proc'[p] # proc[p]
  /\ allTradesCache' # allTradesCache =>
       \E p \in Procs : proc[p].pc = "fetchTrades" /\ proc'[p] # proc[p]

C11_StaleFallback ==
  [][C11_Markets /\ C11_Trades /\ C11_OnlyResponsesWrite]_vars

\* A request failed and the caller was handed an entry that had expired.
C11_Witness ==
  \E p \in Procs :
    /\ running = p
    /\ proc[p].pc = "process"
    /\ allTradesCache.present
    /\ now - allTradesCache.timestamp >= 5 * 60 * 1000
    /\ proc[p].recentTrades = allTradesCache.data
    /\ marketsCache.timestamp = now

---------------------------------------------------------------------------
(* The threshold tables as documented (and as the unit tests of            *)
(* risk-scoring.test.ts expect them), rates in hundredths.                 *)

AgeTable(days) ==
  IF days < 7 THEN 20 ELSE IF days < 14 THEN 15 ELSE IF days < 30 THEN 8
  ELSE 0

WinRateTable(rate) ==
  IF rate > 85 THEN 20 ELSE IF rate > 70 THEN 15 ELSE IF rate > 60 THEN 8
  ELSE 0

ConcentrationTable(c) ==
  IF c > 80 THEN 20 ELSE IF c > 60 THEN 15 ELSE IF c > 40 THEN 8 ELSE 0

TimingTable(hours) ==
  IF hours < 24 THEN 20 ELSE IF hours < 48 THEN 15
  ELSE IF hours < 72 THEN 8 ELSE 0

PositionSizeTable(volume) ==
  IF volume >= 10000 THEN 20 ELSE IF volume >= 2500 THEN 15
  ELSE IF volume >= 500 THEN 8 ELSE 0

NoFactors == [f \in FactorNames |-> Undefined]

---------------------------------------------------------------------------
(* C12: calculateRiskScore returns min(100, sum of the five sub-scores) of  *)
(* the metrics, a missing metric counting as age 30, win rate 0.5,          *)
(* concentration 0.3, timing 72, volume 0; the result is an integer in      *)
(* 0..100; and a repeated call on the same metrics returns the same value.  *)

C12_Inv ==
  calls > 0 =>
    /\ score \in 0..100
    /\ score =
         Min(100,
             AgeTable(OrElse(metrics.accountAgeDays, 30))
             + WinRateTable(OrElse(metrics.winRate, 50))
             + ConcentrationTable(OrElse(metrics.portfolioConcentration, 30))
             + TimingTable(OrElse(metrics.avgTimingProximity, 72))
             + PositionSizeTable(OrElse(metrics.totalVolume, 0)))

C12_SameAgain == (calls > 0 /\ metrics' = metrics) => score' = score

C12_ScoreIsPure == []C12_Inv /\ [][C12_SameAgain]_vars

C12_Witness ==
  /\ calls >= 2
  /\ metrics.accountAgeDays = Undefined
  /\ metrics.totalVolume = Undefined
  /\ metrics.winRate = 86
  /\ metrics.avgTimingProximity = 23
  /\ score >= 40

---------------------------------------------------------------------------
(* C13: each sub-score is the documented table with its strictness at the   *)
(* cutoffs: age < 7, < 14, < 30; win rate > 0.85, > 0.70, > 0.60;           *)
(* concentration > 0.80, > 0.60, > 0.40; timing < 24, < 48, < 72; volume    *)
(* >= 10000, >= 2500, >= 500, giving 20, 15, 8 and else 0.                  *)

C13_Tables ==
  factors # NoFactors =>
    /\ factors.accountAge = AgeTable(metrics.accountAgeDays)
    /\ factors.winRate = WinRateTable(metrics.winRate)
    /\ factors.portfolioConcentration =
         ConcentrationTable(metrics.portfolioConcentration)
    /\ factors.timingProximity = TimingTable(metrics.avgTimingProximity)
    /\ factors.positionSize = PositionSizeTable(metrics.totalVolume)

C13_Witness ==
  /\ metrics.accountAgeDays = 7
  /\ factors.accountAge = 15
  /\ metrics.winRate = 85
  /\ factors.winRate = 15
  /\ metrics.portfolioConcentration = 40
  /\ factors.portfolioConcentration = 0
  /\ metrics.avgTimingProximity = 72
  /\ factors.timingProximity = 0
  /\ metrics.totalVolume = 10000
  /\ factors.positionSize = 20

---------------------------------------------------------------------------
(* C14: a metric made more suspicious (a lower age or timing, a higher win  *)
(* rate, concentration or volume), the others kept, never lowers its        *)
(* sub-score nor the total score.                                           *)

MoreSuspicious(f, v, w) ==
  IF f \in {"accountAgeDays", "avgTimingProximity"} THEN v <= w ELSE v >= w

SubScore(f, v) ==
  CASE f = "accountAgeDays" -> calculateAccountAgeScore(v)
    [] f = "winRate" -> calculateWinRateScore(v)
    [] f = "portfolioConcentration" -> calculateConcentrationScore(v)
    [] f = "avgTimingProximity" -> calculateTimingScore(v)
    [] f = "totalVolume" -> calculatePositionSizeScore(v)

FactorOf(f) ==
  CASE f = "accountAgeDays" -> "accountAge"
    [] f = "winRate" -> "winRate"
    [] f = "portfolioConcentration" -> "portfolioConcentration"
    [] f = "avgTimingProximity" -> "timingProximity"
    [] f = "totalVolume" -> "positionSize"

C14_Monotone ==
  \A f \in MetricNames : \A v \in MetricValues[f] :
    (metrics[f] # Undefined /\ MoreSuspicious(f, v, metrics[f])) =>
      /\ factors # NoFactors => SubScore(f, v) >= factors[FactorOf(f)]
      /\ calls > 0 =>
           calculateRiskScore([metrics EXCEPT ![f] = v]) >= score

C14_Witness ==
  /\ calls > 0
  /\ factors # NoFactors
  /\ factors.accountAge = 8
  /\ calculateAccountAgeScore(13) > factors.accountAge
  /\ calculateRiskScore([metrics EXCEPT !.accountAgeDays = 13]) > score
  /\ factors.positionSize = 15
  /\ calculatePositionSizeScore(9999) = 15

---------------------------------------------------------------------------
(* C15: for the wallet that getWalletRiskFactors was asked about, whether   *)
(* seeded, built by a refresh or added with createWallet, riskScore is      *)
(* min(100, sum of the five factor scores that getWalletRiskFactors         *)
(* reports for it).                                                         *)

SumOfFactors(fs) ==
  fs.accountAge + fs.winRate + fs.portfolioConcentration
    + fs.timingProximity + fs.positionSize

C15_ScoreIsSumOfReportedFactors ==
  returned.method = "getWalletRiskFactors" =>
    returned.data[1].riskScore = Min(100, SumOfFactors(returned.factors))

---------------------------------------------------------------------------
(* C16: in every storage, after any refreshes and createWallet calls, each  *)
(* stored wallet is flagged exactly when its riskScore is at least 40.      *)

C16_FlagFollowsScore ==
  \A i \in DOMAIN wallets :
    wallets[i].isFlagged = shouldFlagWallet(wallets[i].riskScore)

---------------------------------------------------------------------------
(* C19: every wallet returned by getFlaggedWallets is flagged and has       *)
(* riskScore >= 40, and the wallets come ordered by riskScore, highest      *)
(* first.                                                                   *)

C19_FlaggedWallets ==
  returned.method = "getFlaggedWallets" =>
    /\ \A i \in DOMAIN returned.data :
         /\ returned.data[i].isFlagged
         /\ returned.data[i].riskScore >= 40
    /\ \A i, j \in DOMAIN returned.data :
         i < j => returned.data[i].riskScore >= returned.data[j].riskScore

---------------------------------------------------------------------------
(* C20: every wallet returned by getHistoricalWallets has a win rate above  *)
(* 0.7, whichever storage serves the request.                               *)

C20_HistoricalWallets ==
  returned.method = "getHistoricalWallets" =>
    \A i \in DOMAIN returned.data : returned.data[i].winRate > 70

---------------------------------------------------------------------------
(* C17: for a list of N items and the (limit, offset) of any request, the   *)
(* page has data.length = min(limit, max(0, N - offset)), total = N and     *)
(* hasMore = (offset + data.length < N); hasMore is false when the page     *)
(* reaches the end of the list.                                             *)

C17_Page ==
  page.done =>
    /\ Len(page.data) = Min(page.limit, Max(0, items - page.offset))
    /\ page.total = items
    /\ page.hasMore = (page.offset + Len(page.data) < items)
    /\ (page.offset + Len(page.data) >= items => ~page.hasMore)

---------------------------------------------------------------------------
(* C18: for every limit and offset query string the limit used and          *)
(* reported is in 1..200 and the offset is at least 0; a value that is not  *)
(* a number gives the default, limit 50 or offset 0.                        *)

NonNumeric(s) ==
  /\ Truthy(s)
  /\ \/ ~IsDigit(Head(s)) /\ Head(s) # "-"
     \/ Head(s) = "-" /\ (Len(s) = 1 \/ ~IsDigit(s[2]))

C18_LimitAndOffsetInRange ==
  page.done =>
    /\ options.limit \in 1..200
    /\ page.limit \in 1..200
    /\ options.offset >= 0
    /\ page.offset >= 0
    /\ (NonNumeric(query.limit) => page.limit = 50)
    /\ (NonNumeric(query.offset) => page.offset = 0)

---------------------------------------------------------------------------
(* C21: a lookup of a wallet, of a wallet's risk factors or of a market by  *)
(* an id that is not in the storage is answered 404 with an error body,     *)
(* never 200 and never 500, also when the refresh that the lookup awaited   *)
(* ran into a failed fetch.                                                 *)

C21_Answer ==
  reply' # reply =>
    /\ reply'.status \in {200, 404}
    /\ ~Found(reply'.route, reply'.id) =>
         reply'.status = 404 /\ reply'.body = 0

---------------------------------------------------------------------------
(* C22: after every successful refresh each market's suspiciousWalletCount  *)
(* is the number of distinct wallets with a transaction in that market in   *)
(* this refresh's data and riskScore >= 60, and avgRiskScore is the mean    *)
(* riskScore of those wallets, 0 when there are none; nothing is carried    *)
(* over from an earlier refresh.                                            *)

\* The addresses that traded in market c in the fetched data and score at
\* least 60 on it.
HighRiskTraders(c) ==
  {a \in Traders(fetched.trades) :
     /\ \E i \in DOMAIN fetched.trades :
          /\ fetched.trades[i].proxyWallet = a
          /\ fetched.trades[i].conditionId = c
     /\ calculateRiskScore(fetched.metrics[a]) >= 60}

RECURSIVE SumOfScores(_)
SumOfScores(as) ==
  IF as = {} THEN 0
  ELSE LET a == CHOOSE x \in as : TRUE
       IN calculateRiskScore(fetched.metrics[a]) + SumOfScores(as \ {a})

C22_MarketStats ==
  fetched.n > 0 =>
    \A i \in DOMAIN marketRows :
      LET high == HighRiskTraders(marketRows[i].conditionId)
      IN /\ marketRows[i].suspiciousWalletCount = Cardinality(high)
         /\ marketRows[i].avgRiskScore =
              Mean(SumOfScores(high), Cardinality(high))

---------------------------------------------------------------------------
(* C23: PostgresStorage, a refresh over the same upstream markets and       *)
(* trades as the refresh before it: afterwards there is one market row per  *)
(* conditionId, one wallet row per address and one transaction row per      *)
(* fetched trade of each tracked wallet, no table has grown, and every      *)
(* transaction refers to a market row.                                      *)

OneMarketPerConditionId(ms) ==
  \A i, j \in DOMAIN ms : ms[i].conditionId = ms[j].conditionId => i = j

OneWalletPerAddress(ws) ==
  \A i, j \in DOMAIN ws : ws[i].address = ws[j].address => i = j

TransactionsOf(txs, walletId) ==
  Len(SelectSeq(txs, LAMBDA t : t.walletId = walletId))

OneTransactionPerTrade(ws, txs, f) ==
  \A a \in Traders(f.trades) :
    Tracked(f.metrics[a]) =>
      /\ HasWallet(ws, a)
      /\ TransactionsOf(txs, WalletOf(ws, a).id) = Len(TradesOf(f.trades, a))

C23_Step ==
  (backend = "PostgresStorage" /\ fetched'.n = fetched.n + 1
     /\ fetched'.again) =>
    /\ OneMarketPerConditionId(marketRows')
    /\ Len(marketRows') = Len(marketRows)
    /\ \A i \in DOMAIN fetched'.markets :
         HasMarket(marketRows', fetched'.markets[i])
    /\ OneWalletPerAddress(walletRows')
    /\ Len(walletRows') = Len(walletRows)
    /\ OneTransactionPerTrade(walletRows', transactionRows', fetched')
    /\ Len(transactionRows') = Len(transactionRows)
    /\ \A i \in DOMAIN transactionRows' :
         \E j \in DOMAIN marketRows' :
           marketRows'[j].id = transactionRows'[i].marketId

C23_RefreshIsIdempotent == [][C23_Step]_vars

C23_Witness ==
  /\ backend = "PostgresStorage"
  /\ fetched.n = 2
  /\ fetched.again
  /\ fetched.markets = << 101 >>
  /\ Len(walletRows) = 2
  /\ Len(transactionRows) = 2
  /\ \E i \in DOMAIN marketRows : marketRows[i].conditionId = 102

---------------------------------------------------------------------------
(* C28: a wallet id that a list read handed out keeps identifying the same  *)
(* address across later refreshes: while the address is tracked by the      *)
(* newest refresh, getWallet(id) returns the wallet of that address; and    *)
(* an address has one id at a time.                                         *)

\* walletCache.get(id) / select from wallets where id = $1: the addresses of
\* the rows found.
getWallet(id) ==
  {walletRows[i].address : i \in {j \in DOMAIN walletRows :
                                    walletRows[j].id = id}}

StillTracked(a) ==
  /\ a \in Traders(fetched.trades)
  /\ Tracked(fetched.metrics[a])

C28_IdsAreStable ==
  /\ \A h \in handed : StillTracked(h.address) => getWallet(h.id) = {h.address}
  /\ OneWalletPerAddress(walletRows)

---------------------------------------------------------------------------
(* C27: a refresh that fails, at a fetch that cannot fall back or at a      *)
(* processing step after the fetches, leaves the market, wallet and         *)
(* transaction caches exactly as they were when it began.  (The refresh     *)
(* before it having succeeded, or none having run, the caches it began      *)
(* with are the committed ones.)                                            *)

C27_FailedRefreshChangesNothing ==
  \A p \in Procs :
    (proc[p].pc = "finally" /\ proc[p].failed /\ lastOutcome # "failed") =>
      Caches = committed

\* C24: once an earnings refresh has completed and recorded
\* lastEarningsRefresh, the earnings alert cache holds exactly the alerts
\* derived from that refresh's calendar events and markets, and no alert of
\* an earlier refresh, whatever the calendar returned.
C24_AlertsAreOfThisRefresh ==
  earningsRun.recorded =>
    alertCache = Alerts(earningsRun.events, earningsRun.markets)

\* A trade that counts as a win: a SELL priced above 0.5 or a BUY priced
\* below 0.5.
IsWin(trade) ==
  \/ trade.side = "SELL" /\ trade.price > 50
  \/ trade.side = "BUY" /\ trade.price < 50

Wins(trades) == Cardinality({i \in DOMAIN trades : IsWin(trades[i])})

\* C25: analyzeWalletTrades counts a trade as a win exactly when it is a SELL
\* priced above 0.5 or a BUY priced below 0.5; totalBets is the number of
\* trades, winRate is wins / totalBets and lies in [0, 1], and an empty list
\* gives winRate 0 and totalBets 0.
C25_WinRate ==
  analysis.done =>
    /\ analysis.totalBets = Len(walletTrades)
    /\ analysis.winRate.den > 0
    /\ analysis.winRate.num >= 0
    /\ analysis.winRate.num <= analysis.winRate.den
    /\ IF walletTrades = << >>
       THEN analysis.winRate.num = 0 /\ analysis.totalBets = 0
       ELSE analysis.winRate.num * analysis.totalBets
              = Wins(walletTrades) * analysis.winRate.den

\* Three trades analysed: one at exactly 0.5, one a win, one a loss.
C25_Witness ==
  /\ analysis.done
  /\ Len(walletTrades) = 3
  /\ \E i \in DOMAIN walletTrades : walletTrades[i].price = 50
  /\ \E i \in DOMAIN walletTrades :
       walletTrades[i].side = "SELL" /\ walletTrades[i].price = 51
  /\ \E i \in DOMAIN walletTrades :
       walletTrades[i].side = "BUY" /\ walletTrades[i].price = 51
  /\ analysis.winRate = Quotient(1, 3)

\* C26: getDashboardStats reports as highRiskCount the number of stored
\* wallets with a risk score of 60 or more and as totalFlaggedToday the number
\* of flagged wallets (risk score 40 or more), however many wallets are
\* stored; so highRiskCount never exceeds totalFlaggedToday.
C26_DashboardCounts ==
  dashboard.done =>
    /\ dashboard.highRiskCount
         = Cardinality({i \in DOMAIN wallets : wallets[i].riskScore >= 60})
    /\ dashboard.totalFlaggedToday
         = Cardinality({i \in DOMAIN wallets :
                          wallets[i].isFlagged /\ wallets[i].riskScore >= 40})
    /\ dashboard.highRiskCount <= dashboard.totalFlaggedToday

\* C29: the data a call of getMarkets(options) or getRecentTrades(limit)
\* returns was fetched for the options of that call.
C29_DataIsForTheOptionsAsked ==
  got.from \in {"cache", "fetch", "stale"} => got.for = got.asked

\* C30: the earnings client never sends more than 250 HTTP requests on one
\* calendar date, whatever the calls of getEarningsCalendar and
\* getSP500Symbols and whatever the responses.
C30_DailyQuota == sentToday <= 250

====
